---- MODULE Spec2Model ----
(***************************************************************************)
(* GSync: one-way synchronisation of local directory trees to Google Drive *)
(* (src/src/sync.rs, src/src/api/drive.rs, src/src/api/oauth.rs,           *)
(* src/src/main.rs).                                                       *)
(*                                                                         *)
(* Strings are sequences of tokens: the path separator "/" is the token    *)
(* "/", a file or folder name is one token.  A path string such as "/a/x"  *)
(* is << "/", "a", "/", "x" >>, and "/a/" is << "/", "a", "/" >>, so that  *)
(* the string operations of the code (ends_with, strip, parent, push) are  *)
(* modelled by what they do to the text.                                   *)
(***************************************************************************)
EXTENDS Integers, Sequences, FiniteSets, TLC

(***************************************************************************)
(* Bounds of the model.                                                    *)
(***************************************************************************)
\* number of `gsync sync` invocations in one behaviour
MaxRuns == 2
\* number of injected failures (database, cursor, remote) in one behaviour
MaxFaults == 1
\* number of out-of-band changes to the remote store in one behaviour
MaxOob == 1
\* number of edits the user makes to the local tree in one behaviour
MaxChanges == 1
\* local modification times range over 1..MaxTime
MaxTime == 2
\* size of the batch of ids generateIds returns (the code asks for 100)
IdBatch == 2

(***************************************************************************)
(* Strings and paths.                                                      *)
(***************************************************************************)
SEP == "/"
GITIGNORE == ".gitignore"

\* str::ends_with("/")
ends_with_sep(s) == Len(s) > 0 /\ s[Len(s)] = SEP

\* str::starts_with(t)
starts_with(s, t) == Len(s) > 0 /\ s[1] = t

\* the components "." and ".." of a path text
DOT == "."
DOTDOT == ".."

\* components with ".." resolved against the component before it
RECURSIVE Components_resolved(_)
Components_resolved(s) ==
    IF s = <<>> THEN <<>>
    ELSE IF s[Len(s)] \in {SEP, DOT} THEN Components_resolved(SubSeq(s, 1, Len(s) - 1))
    ELSE IF s[Len(s)] = DOTDOT
    THEN LET cs == Components_resolved(SubSeq(s, 1, Len(s) - 1))
         IN  IF cs = <<>> THEN <<>> ELSE SubSeq(cs, 1, Len(cs) - 1)
    ELSE Append(Components_resolved(SubSeq(s, 1, Len(s) - 1)), s[Len(s)])

\* The components of an absolute path (std::path::Path::components): the names
\* between separators; a trailing separator adds no component, a "." is
\* normalised away, a ".." is kept as a component.
RECURSIVE Components(_)
Components(s) ==
    IF s = <<>> THEN <<>>
    ELSE IF s[Len(s)] \in {SEP, DOT} THEN Components(SubSeq(s, 1, Len(s) - 1))
    ELSE Append(Components(SubSeq(s, 1, Len(s) - 1)), s[Len(s)])

\* The text of the absolute path with the given components, no trailing separator.
RECURSIVE PathOf(_)
PathOf(cs) ==
    IF cs = <<>> THEN <<>>
    ELSE PathOf(SubSeq(cs, 1, Len(cs) - 1)) \o << SEP, cs[Len(cs)] >>

\* Path::file_name: the last component.
file_name(p) == Components(p)[Len(Components(p))]

\* Path::parent: the path without its last component ("/" for a top-level path).
parent(p) ==
    LET cs == Components(p)
    IN  IF Len(cs) <= 1 THEN << SEP >> ELSE PathOf(SubSeq(cs, 1, Len(cs) - 1))

\* PathBuf::push / DirEntry::path: a separator is added unless the directory
\* text already ends with one.
join(dir, name) ==
    IF ends_with_sep(dir) THEN Append(dir, name) ELSE dir \o << SEP, name >>

\* PathBuf equality compares components, so "/a/" == "/a".
path_eq(p, q) == Components(p) = Components(q)

\* The first character of a token: the tokens ".", ".." and ".gitignore" begin
\* with a period, the separator is "/", a name begins with a letter.
first_char(t) == IF t \in {DOT, DOTDOT, GITIGNORE} THEN DOT ELSE t

\* str::starts_with(c) for a one-character pattern c
starts_with_char(s, c) == Len(s) > 0 /\ first_char(s[1]) = c

\* normalize_path with a separator put between the working directory and the
\* input in every relative case
normalize_path_separated(pwd, i) ==
    IF ~starts_with_char(i, SEP) THEN pwd \o << SEP >> \o i ELSE i

\* normalize_path(i), with pwd the value pwd() returns: the text of the two
\* format! calls, or the input itself
normalize_path(pwd, i) ==
    IF starts_with_char(i, DOT) THEN pwd \o i
    ELSE IF ~starts_with_char(i, SEP) THEN pwd \o << SEP >> \o i
    ELSE i

\* sync, line 15: every part of config.input_files is normalised
input_parts(pwd, input) == [k \in 1..Len(input) |-> normalize_path(pwd, input[k])]

\* base64::encode of the path text: an injective encoding of the text.
base64_encode(s) == << "b64" >> \o s

\* `let v = ...;` followed by the code that uses v
Then(v, rest(_)) == rest(v)

(***************************************************************************)
(* The local file system: a function from the components of each existing  *)
(* path to its kind, modification time and (for a rule file) its lines.    *)
(***************************************************************************)
VARIABLES
    fs,           \* local file system
    reversed,     \* the order in which the file system lists a directory
    changes,      \* counter for the bound on local edits
    input_files,  \* the configured input roots (config.input_files, split at ",")
    files,        \* table `files`: sequence of rows [id, path, modification_time, sync_include]
    remote,       \* remote store: set of entities [id, name, parent, folder]
    IDS,          \* drive.rs IDS: pool of pre-generated ids of this process
    gen,          \* last id the remote service generated
    root_folder,  \* env.root_folder
    pc,           \* "idle" | "sync" | "sweep"
    work,         \* pending sync_child calls, first is next: [child, at_root]
    cursor,       \* rows the SELECT of remote_delete_removed has still to return
    result,       \* outcome of the last finished run: "none" | "Ok" | "Err" | "Panic"
    runs, faults, oobs,   \* counters for the bounds
    calls,        \* remote mutation calls issued in the current run
    last,         \* what the last sync_child call saw and did
    removed,      \* rows the DELETE of the current run removed
    deleted,      \* ids for which delete_file returned Ok in the current run
    stale0,       \* rows with sync_include = 0 when the sweep started
    files0,       \* rows of the table when the run started
    visited,      \* paths of the nodes sync_child was called on in the current run
    failed,       \* a database operation or a remote call of the current run failed
    second,       \* this run follows an Ok run with no local or remote change between
    quiet,        \* no local or remote change since the last run returned Ok
    conns_peak,   \* largest number of database connections open at the same time
    tree,         \* what the first loop of sync returned when it was run on its own
    user,         \* table `user`: sequence of rows [access_token, refresh_token, expiry]
    now,          \* chrono::Utc::now().timestamp()
    token,        \* what the last call of get_access_token returned
    config,       \* table `config`: sequence of rows, one field per option
    cmd,          \* the last `gsync config` command: its options, what was stored, its exit
    prior,        \* the local tree and the fault count when the run started, whether
                  \* the run before it deleted remote entities and then failed, and
                  \* whether the run listed the folders named GSync, and the last id
                  \* the remote service had generated when the run started
    PWD,          \* the environment variable PWD
    normal,       \* what normalize_path returned for each configured input
    parsed,       \* what parse_gitignore returned for the rule file of the tree
    login         \* `gsync login`: the flow, the callback server and the channel of codes

\* the variables of a sync run
sync_vars == << fs, reversed, changes, input_files, files, remote, IDS, gen, root_folder, pc,
                work, cursor, result, runs, faults, oobs, calls, last, removed, deleted,
                stale0, files0, visited, failed, second, quiet, conns_peak, prior >>

\* the variables of the tree builder, the login, the configuration and the
\* normalisation of the inputs, each run on its own
aux_vars == << tree, user, now, token, config, cmd, PWD, normal, parsed, login >>

vars == << sync_vars, aux_vars >>

\* `read`: the directory can be listed, the file can be read
DirEntry == [kind |-> "dir", mtime |-> 1, lines |-> <<>>, read |-> TRUE]
FileEntry(t) == [kind |-> "file", mtime |-> t, lines |-> <<>>, read |-> TRUE]
RuleEntry(ls) == [kind |-> "file", mtime |-> 1, lines |-> ls, read |-> TRUE]

exists(fsys, p) == Components(p) \in DOMAIN fsys
is_dir(fsys, p) == exists(fsys, p) /\ fsys[Components(p)].kind = "dir"

\* Position of a name in a directory listing; the listing is in this order or
\* in the reverse order (fs::read_dir promises no order).
Rank(n) ==
    CASE n = GITIGNORE -> 1 [] n = "d" -> 2 [] n = "x" -> 3 [] n = "y" -> 4 [] n = "e" -> 5
      [] OTHER -> 6

RECURSIVE SortNames(_)
SortNames(S) ==
    IF S = {} THEN <<>>
    ELSE LET n == CHOOSE n \in S : \A o \in S : Rank(n) <= Rank(o)
         IN  << n >> \o SortNames(S \ {n})

Reverse(s) == [i \in 1..Len(s) |-> s[Len(s) + 1 - i]]

\* fs::read_dir(p): the paths of the entries of directory p.
read_dir(fsys, rev, p) ==
    LET cs == Components(p)
        names == { c[Len(c)] : c \in { c \in DOMAIN fsys : Len(c) = Len(cs) + 1
                                                      /\ SubSeq(c, 1, Len(cs)) = cs } }
        sorted == SortNames(names)
        listing == IF rev THEN Reverse(sorted) ELSE sorted
    IN  [i \in 1..Len(listing) |-> join(p, listing[i])]

(***************************************************************************)
(* Exclusion rules and the tree builder.                                   *)
(***************************************************************************)
\* parse_gitignore without line 324: a line that starts with "#" is a rule too
RECURSIVE parse_lines_with_comments(_, _)
parse_lines_with_comments(dir, lines) ==
    IF lines = <<>> THEN <<>>
    ELSE LET line == Head(lines)
             line_fmt == IF starts_with(line, SEP) THEN Tail(line) ELSE line
         IN  IF line = <<>>
             THEN parse_lines_with_comments(dir, Tail(lines))
             ELSE << dir \o << SEP >> \o line_fmt >>
                  \o parse_lines_with_comments(dir, Tail(lines))

\* parse_gitignore: one rule per line that is neither empty nor a comment,
\* the parent directory of the rule file joined with the line less one leading "/".
RECURSIVE parse_lines(_, _)
parse_lines(dir, lines) ==
    IF lines = <<>> THEN <<>>
    ELSE LET line == Head(lines)
             line_fmt == IF starts_with(line, SEP) THEN Tail(line) ELSE line
         IN  IF line = <<>> \/ starts_with(line, "#")
             THEN parse_lines(dir, Tail(lines))
             ELSE << dir \o << SEP >> \o line_fmt >> \o parse_lines(dir, Tail(lines))

parse_gitignore(fsys, p) == parse_lines(parent(p), fsys[Components(p)].lines)

\* a rule applied to every entry that has the name the rule ends with
excluded_by_name(exclusions, p) ==
    \E i \in 1..Len(exclusions) :
        Components(exclusions[i]) # <<>> /\ file_name(exclusions[i]) = file_name(p)

\* no rule applied at all
excluded_never(exclusions, p) == FALSE

\* exclusions.contains(&entry.path())
excluded(exclusions, p) == \E i \in 1..Len(exclusions) : path_eq(exclusions[i], p)

Directory(p, children) ==
    [kind |-> "dir", path |-> p, name |-> file_name(p), children |-> children]
File(p) == [kind |-> "file", path |-> p, name |-> file_name(p), children |-> <<>>]

\* fs::read_dir(&p) and fs::read_to_string(&p) succeed
readable(fsys, p) == fsys[Components(p)].read

\* what traverse hands back: Ok(children) and the exclusions it appended, an
\* error ("Err"), or no return at all ("Panic": an unwrap() on an Err)
Traversed(res, children, exclusions) ==
    [res |-> res, children |-> children, exclusions |-> exclusions]

\* traverse, lines 307-310: a file named like the rule file is parsed too
file_exclusions(fsys, p, exclusions) ==
    IF file_name(p) = GITIGNORE THEN exclusions \o parse_gitignore(fsys, p) ELSE exclusions

\* traverse(p, exclusions): the nodes for p and the exclusions accumulated so
\* far.  parse_gitignore unwraps the result of reading the rule file; a directory
\* that cannot be listed is returned as an error.
RECURSIVE traverse(_, _, _, _)
RECURSIVE traverse_entries(_, _, _, _, _)
traverse(fsys, rev, p, exclusions) ==
    IF is_dir(fsys, p)
    THEN LET potential_gitignore == join(p, GITIGNORE)
         IN  IF exists(fsys, potential_gitignore) /\ ~readable(fsys, potential_gitignore)
             THEN Traversed("Panic", <<>>, exclusions)
             ELSE IF ~readable(fsys, p)
             THEN Traversed("Err", <<>>,
                            IF exists(fsys, potential_gitignore)
                            THEN exclusions \o parse_gitignore(fsys, potential_gitignore)
                            ELSE exclusions)
             ELSE Then(traverse_entries(fsys, rev, read_dir(fsys, rev, p),
                                        IF exists(fsys, potential_gitignore)
                                        THEN exclusions
                                             \o parse_gitignore(fsys, potential_gitignore)
                                        ELSE exclusions,
                                        <<>>),
                  LAMBDA r :
                     IF r.res # "Ok" THEN Traversed(r.res, <<>>, r.exclusions)
                     ELSE Traversed("Ok", << Directory(p, r.children) >>, r.exclusions))
    ELSE IF file_name(p) = GITIGNORE /\ ~readable(fsys, p)
    THEN Traversed("Panic", <<>>, exclusions)
    ELSE Traversed("Ok", << File(p) >>, file_exclusions(fsys, p, exclusions))

\* the `for entry in read_dir(&p)` loop of traverse
traverse_entries(fsys, rev, entries, exclusions, children) ==
    IF entries = <<>> THEN Traversed("Ok", children, exclusions)
    ELSE IF excluded(exclusions, Head(entries))
    THEN traverse_entries(fsys, rev, Tail(entries), exclusions, children)
    ELSE Then(traverse(fsys, rev, Head(entries), exclusions), LAMBDA r :
            IF r.res # "Ok" THEN Traversed(r.res, <<>>, r.exclusions)
            ELSE traverse_entries(fsys, rev, Tail(entries), r.exclusions,
                                  children \o r.children))

\* The first loop of sync with one exclusion list for all the input roots
RECURSIVE traverse_inputs_shared(_, _, _, _)
traverse_inputs_shared(fsys, rev, inputs, exclusions) ==
    IF inputs = <<>> THEN Traversed("Ok", <<>>, exclusions)
    ELSE Then(traverse(fsys, rev, Head(inputs), exclusions), LAMBDA first :
            IF first.res # "Ok" THEN first
            ELSE Then(traverse_inputs_shared(fsys, rev, Tail(inputs), first.exclusions),
                 LAMBDA others :
                    Traversed(others.res,
                              IF others.res = "Ok" THEN first.children \o others.children
                              ELSE <<>>,
                              others.exclusions)))

\* all the input roots traversed with the exclusions of the roots before them
traverse_inputs_leaking(fsys, rev, inputs) ==
    traverse_inputs_shared(fsys, rev, inputs, <<>>)

\* The first loop of sync: every input root is traversed with a fresh
\* exclusion list (`&mut Vec::new()`) and the nodes are appended; an error of
\* one traversal is returned (`?`).
RECURSIVE traverse_inputs(_, _, _)
traverse_inputs(fsys, rev, inputs) ==
    IF inputs = <<>> THEN Traversed("Ok", <<>>, <<>>)
    ELSE Then(traverse(fsys, rev, Head(inputs), <<>>), LAMBDA first :
            IF first.res # "Ok" THEN first
            ELSE Then(traverse_inputs(fsys, rev, Tail(inputs)), LAMBDA others :
                    Traversed(others.res,
                              IF others.res = "Ok" THEN first.children \o others.children
                              ELSE <<>>,
                              <<>>)))

(***************************************************************************)
(* The remote store (Google Drive) as the client of src/src/api/drive.rs   *)
(* sees it.  Ids are the numbers generateIds hands out; 0 is the alias     *)
(* "root" of the top folder, which always exists.                          *)
(***************************************************************************)
DriveRoot == 0
\* String::new(): the empty id
NoId == -1
GSYNC == "GSync"

Max(a, b) == IF a >= b THEN a ELSE b

Exists(rem, id) == id = DriveRoot \/ \E e \in rem : e.id = id

\* A folder is deleted with everything below it.
RECURSIVE Subtree(_, _)
Subtree(rem, ids) ==
    LET more == ids \cup { e.id : e \in { e \in rem : e.parent \in ids } }
    IN  IF more = ids THEN ids ELSE Subtree(rem, more)

RemoteDelete(rem, id) == { e \in rem : e.id \notin Subtree(rem, {id}) }

(***************************************************************************)
(* One call of a handler works on a record m: the table, the remote store, *)
(* the id pool, the calls it issued (log), the connections its callers     *)
(* hold (held) and the peak of open connections, and the choices of the    *)
(* environment for this call: which operation fails (fault) and which of   *)
(* several listed folders comes last in the response (adopt).              *)
(***************************************************************************)
Machine(fault, adopt, held) ==
    [files |-> files, remote |-> remote, IDS |-> IDS, gen |-> gen, log |-> <<>>,
     peak |-> conns_peak, held |-> held, failed |-> failed,
     fault |-> fault, used |-> FALSE, adopt |-> adopt, listed |-> FALSE, valid |-> TRUE]

Hit(m, point) == m.fault = point
Fail(m) == [m EXCEPT !.used = TRUE, !.failed = TRUE]
Logged(m, entry) == [m EXCEPT !.log = Append(@, entry)]

\* Env::get_conn: one more connection is open besides those the callers hold;
\* it is closed when the function that opened it returns.
get_conn(m) == [m EXCEPT !.peak = Max(@, m.held + 1)]

\* oauth::get_access_token: opens its own connection to read the user table.
get_access_token(m) == get_conn(m)

\* get_modification_time
get_modification_time(path) == fs[Components(path)].mtime

\* get_file_record: the first row with the encoded path.  A failure to open,
\* prepare or read a column is returned (point_db); a failure of the cursor
\* (result.next() is Err) ends the `while let Ok(Some(row))` loop, and the
\* function returns Ok(None) (point_step).
get_file_record(m, path, point_db, point_step) ==
    Then(get_conn(m), LAMBDA c :
        LET base64_path == base64_encode(path)
            rows == SelectSeq(c.files, LAMBDA r : r.path = base64_path)
            none == [res |-> "none", id |-> NoId, modification_time |-> 0]
        IN  IF Hit(c, point_db) THEN [m |-> Fail(c)] @@ [none EXCEPT !.res = "err"]
            ELSE IF Hit(c, point_step) THEN [m |-> Fail(c)] @@ none
            ELSE IF rows = <<>> THEN [m |-> c] @@ none
            ELSE [m |-> c, res |-> "some", id |-> rows[1].id,
                  modification_time |-> rows[1].modification_time])

\* update_file (sync.rs): UPDATE files SET modification_time, sync_include = 1 WHERE path
update_file(m, path, point) ==
    Then(get_conn(m), LAMBDA c :
        LET base64_path == base64_encode(path)
            modification_time == get_modification_time(path)
        IN  IF Hit(c, point) THEN [m |-> Fail(c), res |-> "err"]
            ELSE [m |-> [c EXCEPT !.files =
                            [i \in 1..Len(@) |->
                                IF @[i].path = base64_path
                                THEN [@[i] EXCEPT !.modification_time = modification_time,
                                                  !.sync_include = 1]
                                ELSE @[i]]],
                  res |-> "ok"])

\* the path text insert_file encodes: one trailing "/" is removed
insert_path_str(path) ==
    IF ends_with_sep(path) THEN SubSeq(path, 1, Len(path) - 1) ELSE path

\* insert_file: INSERT INTO files (id, path, modification_time, sync_include = 1)
insert_file(m, path, id, point) ==
    Then(get_conn(m), LAMBDA c :
        LET base64_path == base64_encode(insert_path_str(path))
            mod_time == get_modification_time(path)
        IN  IF Hit(c, point) THEN [m |-> Fail(c), res |-> "err"]
            ELSE [m |-> [c EXCEPT !.files =
                            Append(@, [id |-> id, path |-> base64_path,
                                       modification_time |-> mod_time,
                                       sync_include |-> 1])],
                  res |-> "ok"])

\* file_changed written with `>=`: a file whose time did not change counts as changed
file_changed_or_equal(path, stored_modification_time) ==
    get_modification_time(path) >= stored_modification_time

\* file_changed: strictly newer than the stored time
file_changed(path, stored_modification_time) ==
    get_modification_time(path) > stored_modification_time

\* reset_sync_include: UPDATE files SET sync_include = 0
reset_sync_include(m, point) ==
    Then(get_conn(m), LAMBDA c :
        IF Hit(c, point) THEN [m |-> Fail(c), res |-> "err"]
        ELSE [m |-> [c EXCEPT !.files =
                        [i \in 1..Len(@) |-> [@[i] EXCEPT !.sync_include = 0]]],
              res |-> "ok"])

\* drive::get_id: the last id of the pool; an empty pool is refilled with a
\* batch from generateIds first.
\* get_id with the id read from the pool and left in it
get_id_kept(m) ==
    Then(get_access_token(m), LAMBDA t :
        IF t.IDS = <<>>
        THEN [m |-> [t EXCEPT !.IDS = [i \in 1..IdBatch |-> t.gen + i],
                              !.gen = @ + IdBatch],
              id |-> t.gen + IdBatch]
        ELSE [m |-> t, id |-> t.IDS[Len(t.IDS)]])

get_id(m) ==
    Then(get_access_token(m), LAMBDA t :
        IF t.IDS = <<>>
        THEN [m |-> [t EXCEPT !.IDS = [i \in 1..(IdBatch - 1) |-> t.gen + i],
                              !.gen = @ + IdBatch],
              id |-> t.gen + IdBatch]
        ELSE [m |-> [t EXCEPT !.IDS = SubSeq(@, 1, Len(@) - 1)],
              id |-> t.IDS[Len(t.IDS)]])

\* A POST that creates an entity under `parent`: it fails with 404 "File not
\* found" when the parent does not exist, or with another error (point).
create_entity(m, op, name, parent_id, folder, point) ==
    Then(get_id(get_access_token(m)), LAMBDA g :
        LET entry == [op |-> op, name |-> name, target |-> parent_id, id |-> g.id,
                      point |-> point]
        IN  IF Hit(g.m, point)
            THEN [m |-> Logged(Fail(g.m), entry @@ [res |-> "err"]),
                  res |-> "err", id |-> NoId]
            ELSE IF ~Exists(g.m.remote, parent_id)
            THEN [m |-> Logged([g.m EXCEPT !.failed = @ \/ point # "create"],
                               entry @@ [res |-> "404"]),
                  res |-> "404", id |-> NoId]
            ELSE [m |-> Logged([g.m EXCEPT !.remote = @ \cup
                                   {[id |-> g.id, name |-> name, parent |-> parent_id,
                                     folder |-> folder]}],
                               entry @@ [res |-> "ok"]),
                  res |-> "ok", id |-> g.id])

\* drive::create_folder
create_folder(m, folder_name, parent_id, point) ==
    create_entity(m, "create_folder", folder_name, parent_id, TRUE, point)

\* drive::upload_file
upload_file(m, path, parent_id, point) ==
    create_entity(m, "upload_file", file_name(path), parent_id, FALSE, point)

\* a PATCH or DELETE of the entity `id`, which leaves the remote store as
\* remote_after: it fails with 404 when the entity does not exist, or with
\* another error (point)
entity_call(m, op, id, point, remote_after) ==
    Then(get_access_token(m), LAMBDA t :
        LET entry == [op |-> op, name |-> "", target |-> id, id |-> id, point |-> point]
        IN  IF Hit(t, point)
            THEN [m |-> Logged(Fail(t), entry @@ [res |-> "err"]), res |-> "err"]
            ELSE IF ~Exists(t.remote, id)
            THEN [m |-> Logged([t EXCEPT !.failed = TRUE], entry @@ [res |-> "404"]),
                  res |-> "404"]
            ELSE [m |-> Logged([t EXCEPT !.remote = remote_after], entry @@ [res |-> "ok"]),
                  res |-> "ok"])

\* drive::update_file: PATCH of the entity `id`
drive_update_file(m, path, id, point) ==
    entity_call(m, "update_file", id, point, m.remote)

\* drive::delete_file: DELETE of the entity `id`
delete_file(m, id, point) ==
    entity_call(m, "delete_file", id, point, RemoteDelete(m.remote, id))

\* drive::list_files with q = "name = '<name>' and mimeType = folder": the
\* folders of that name, whatever their parent.
list_files(m, name, point) ==
    Then(get_access_token(m), LAMBDA t :
        IF Hit(t, point) THEN [m |-> Fail(t), res |-> "err", found |-> {}]
        ELSE [m |-> t, res |-> "ok",
              found |-> { e.id : e \in { e \in t.remote : e.folder /\ e.name = name } }])

\* The caller takes one of the listed folders: the last one of the response
\* whose name contains the name asked for (sync_child), the first one (main).
\* The response has no promised order: m.adopt is the one taken, NoId when
\* nothing was listed.
take_listed(m, found) ==
    [m |-> [m EXCEPT !.listed = TRUE,
                     !.valid = IF found = {} THEN m.adopt = NoId ELSE m.adopt \in found],
     id |-> m.adopt]

(***************************************************************************)
(* The reconciler: sync_child on one node.  The result names the outcome   *)
(* ("Ok", "Err": an error is returned, "Panic": the call cannot return),   *)
(* the children to recurse into, and what the call saw.                    *)
(***************************************************************************)
Outcome(m, res, children, rec) ==
    [m |-> m, res |-> res, children |-> children, rec |-> rec.res,
     stored |-> rec.modification_time, rec_id |-> rec.id]

Failed(m) == [m |-> m, res |-> "err", id |-> NoId]

\* sync_child, Directory, lines 78-98: create_folder failed with 404 "File not
\* found"; the folder is created again, at the root under "root", elsewhere
\* after a folder named like the parent was created under the parent's own id.
repair_directory(m, dir, at_root, parent_id) ==
    IF at_root THEN create_folder(m, dir.name, DriveRoot, "retry")
    ELSE Then(get_file_record(m, parent(dir.path), "repair_db", "repair_step"),
         LAMBDA record :
            IF record.res # "some" THEN Failed(record.m)
            ELSE Then(create_folder(record.m, file_name(parent(dir.path)), record.id,
                                    "repair"),
                 LAMBDA repair :
                    IF repair.res # "ok" THEN Failed(repair.m)
                    ELSE create_folder(repair.m, dir.name, parent_id, "retry")))

\* sync_child, Directory, lines 72-105: create the folder; on 404 "File not
\* found" repair and create it again.
create_directory(m, dir, at_root, parent_id) ==
    Then(create_folder(m, dir.name, parent_id, "create"), LAMBDA first :
        IF first.res # "404" THEN first
        ELSE repair_directory(first.m, dir, at_root, parent_id))

\* parent_id of a node without a record: env.root_folder at the root, the id
\* of the parent's record elsewhere
parent_record(m, path, at_root) ==
    IF at_root THEN [m |-> m, res |-> "some", id |-> root_folder]
    ELSE get_file_record(m, parent(path), "parent_db", "parent_step")

\* new_directory with the id of the listing recorded for a folder that was
\* created
new_directory_listed_id(m, dir, at_root, parent_id, record) ==
    Then(list_files(m, dir.name, "list"), LAMBDA listed :
        IF listed.res = "err" THEN Outcome(listed.m, "Err", <<>>, record)
        ELSE Then(take_listed(listed.m, listed.found), LAMBDA taken :
            IF taken.id # NoId THEN Outcome(taken.m, "Ok", dir.children, record)
            ELSE Then(create_directory(taken.m, dir, at_root, parent_id), LAMBDA created :
                IF created.res # "ok" THEN Outcome(created.m, "Err", <<>>, record)
                ELSE Then(insert_file(created.m, dir.path, taken.id, "insert"),
                     LAMBDA inserted :
                        Outcome(inserted.m, IF inserted.res = "err" THEN "Err" ELSE "Ok",
                                IF inserted.res = "err" THEN <<>> ELSE dir.children,
                                record)))))

\* sync_child, Directory without a record, lines 61-108: a listed folder is
\* taken as it is (insert_file is inside `if id.is_empty()`), else the folder
\* is created and recorded.
new_directory(m, dir, at_root, parent_id, record) ==
    Then(list_files(m, dir.name, "list"), LAMBDA listed :
        IF listed.res = "err" THEN Outcome(listed.m, "Err", <<>>, record)
        ELSE Then(take_listed(listed.m, listed.found), LAMBDA taken :
            IF taken.id # NoId THEN Outcome(taken.m, "Ok", dir.children, record)
            ELSE Then(create_directory(taken.m, dir, at_root, parent_id), LAMBDA created :
                IF created.res # "ok" THEN Outcome(created.m, "Err", <<>>, record)
                ELSE Then(insert_file(created.m, dir.path, created.id, "insert"),
                     LAMBDA inserted :
                        Outcome(inserted.m, IF inserted.res = "err" THEN "Err" ELSE "Ok",
                                IF inserted.res = "err" THEN <<>> ELSE dir.children,
                                record)))))

\* sync_child, Child::Directory, without the recursion into the children
sync_directory(m, dir, at_root) ==
    Then(get_file_record(m, dir.path, "lookup_db", "lookup_step"), LAMBDA record :
        IF record.res = "err" THEN Outcome(record.m, "Err", <<>>, record)
        ELSE IF record.res = "some"
        THEN Then(update_file(record.m, dir.path, "touch"), LAMBDA touch :
                Outcome(touch.m, IF touch.res = "err" THEN "Err" ELSE "Ok",
                        IF touch.res = "err" THEN <<>> ELSE dir.children, record))
        ELSE Then(parent_record(record.m, dir.path, at_root), LAMBDA par :
                IF par.res = "err" THEN Outcome(par.m, "Err", <<>>, record)
                \* get_file_record(parent)?.unwrap() on None
                ELSE IF par.res = "none" THEN Outcome(par.m, "Panic", <<>>, record)
                ELSE new_directory(par.m, dir, at_root, par.id, record)))

\* sync_child, Child::File with a record, lines 119-127
known_file(m, path, record) ==
    Then(IF file_changed(path, record.modification_time)
         THEN drive_update_file(m, path, record.id, "update")
         ELSE [m |-> m, res |-> "ok"],
    LAMBDA updated :
        IF updated.res # "ok" THEN Outcome(updated.m, "Err", <<>>, record)
        ELSE Then(update_file(updated.m, path, "touch"), LAMBDA touch :
                Outcome(touch.m, IF touch.res = "err" THEN "Err" ELSE "Ok", <<>>, record)))

\* sync_child, Child::File without a record, lines 128-145.  When the parent
\* has no record (lines 136-138) the code lists folders and yields no parent
\* id: the call cannot go on.
new_file(m, path, at_root, record) ==
    Then(parent_record(m, path, at_root), LAMBDA par :
        IF par.res = "err" THEN Outcome(par.m, "Err", <<>>, record)
        ELSE IF par.res = "none"
        THEN Then(list_files(par.m, file_name(parent(path)), "list"), LAMBDA query :
                Outcome(query.m, IF query.res = "err" THEN "Err" ELSE "Panic", <<>>, record))
        ELSE Then(upload_file(par.m, path, par.id, "upload"), LAMBDA uploaded :
                IF uploaded.res # "ok" THEN Outcome(uploaded.m, "Err", <<>>, record)
                ELSE Then(insert_file(uploaded.m, path, uploaded.id, "insert"),
                     LAMBDA inserted :
                        Outcome(inserted.m, IF inserted.res = "err" THEN "Err" ELSE "Ok",
                                <<>>, record))))

\* sync_child, Child::File
sync_file(m, path, at_root) ==
    Then(get_file_record(m, path, "lookup_db", "lookup_step"), LAMBDA record :
        IF record.res = "err" THEN Outcome(record.m, "Err", <<>>, record)
        ELSE IF record.res = "some" THEN known_file(record.m, path, record)
        ELSE new_file(record.m, path, at_root, record))

sync_child(m, child, at_root) ==
    IF child.kind = "dir" THEN sync_directory(m, child, at_root)
    ELSE sync_file(m, child.path, at_root)

(***************************************************************************)
(* The local trees and rule files the model ranges over: the input root    *)
(* /a, a file /a/x, a directory /a/d with a file /a/d/y, and a rule file   *)
(* /a/.gitignore.                                                          *)
(***************************************************************************)
\* contents of the rule file: sequences of lines
RuleFiles == << << <<"d">> >> >>

FsOf(x, d, g) ==
    LET dom == {<<"a">>}
               \cup (IF x > 0 THEN {<<"a", "x">>} ELSE {})
               \cup (IF d > 0 THEN {<<"a", "d">>} ELSE {})
               \cup (IF d > 1 THEN {<<"a", "d", "y">>} ELSE {})
               \cup (IF g > 0 THEN {<<"a", GITIGNORE>>} ELSE {})
    IN  [c \in dom |->
            IF c = <<"a", "x">> THEN FileEntry(x)
            ELSE IF c = <<"a", "d", "y">> THEN FileEntry(1)
            ELSE IF c = <<"a", GITIGNORE>> THEN RuleEntry(RuleFiles[g])
            ELSE DirEntry]

FsConfigs == { FsOf(x, d, g) : x \in 0..MaxTime, d \in 0..2, g \in 0..Len(RuleFiles) }

\* the trees a behaviour starts from; the other trees are reached by an edit
FsInitial == { FsOf(x, d, 0) : x \in 0..MaxTime, d \in {0, 2} }

\* config.input_files: the root written without and with a trailing separator
InputChoices == { << <<SEP, "a">> >>, << <<SEP, "a", SEP>> >> }

NoLast ==
    [kind |-> "none", path |-> <<>>, at_root |-> FALSE, rec |-> "none", stored |-> 0,
     rec_id |-> NoId, local |-> 0, log |-> <<>>, res |-> "none", pushed |-> 0,
     inserted |-> FALSE, failed |-> FALSE, fault |-> "none", taken |-> NoId]

(***************************************************************************)
(* The login (src/src/api/oauth.rs, src/src/login/db.rs).  An access token *)
(* is the time until which the service accepts it; the empty string is     *)
(* NoToken.  Times are in seconds.                                         *)
(***************************************************************************)
\* get_access_token refreshes a token within 60 seconds of its expiry
Margin == 60
\* String::default(): the empty token
NoToken == 0
\* Option::None
None == "None"
\* the clock of the model stops here
MaxClock == 180
\* `expires_in` of the tokens the service hands out
Lifetimes == {90, 150}

UserRow(access_token, refresh_token, expiry) ==
    [access_token |-> access_token, refresh_token |-> refresh_token, expiry |-> expiry]

\* LoginData
LoginData(access_token, refresh_token, expires_in) ==
    [access_token |-> access_token, refresh_token |-> refresh_token,
     expires_in |-> expires_in]

\* the refresh tokens the service hands out
RefreshTokens == {"refresh", "renewed"}

\* exchange_access_token: the login hands back a token and a refresh token
exchange_access_token(time, expires_in, refresh_token) ==
    LoginData(time + expires_in, refresh_token, expires_in)

\* refresh_access_token: a new token, no refresh token
refresh_access_token(time, expires_in, fault) ==
    IF fault = "refresh" THEN [res |-> "Err"]
    ELSE [res |-> "Ok"] @@ LoginData(time + expires_in, None, expires_in)

\* save_to_database: after a login the row is replaced (DELETE, INSERT), after
\* a refresh the token and the expiry of the rows are updated
save_to_database(table, login_data, time, fault) ==
    LET expiry_time == time + login_data.expires_in
    IN  IF fault = "save_db" THEN [res |-> "Err", table |-> table]
        ELSE IF login_data.refresh_token # None
        THEN IF fault = "save" THEN [res |-> "Err", table |-> <<>>]
             ELSE [res |-> "Ok",
                   table |-> << UserRow(login_data.access_token, login_data.refresh_token,
                                        expiry_time) >>]
        ELSE IF fault = "save" THEN [res |-> "Err", table |-> table]
             ELSE [res |-> "Ok",
                   table |-> [i \in 1..Len(table) |->
                                 [table[i] EXCEPT !.access_token = login_data.access_token,
                                                  !.expiry = expiry_time]]]

\* what get_access_token hands back: the token, whether it was refreshed in
\* this call, the stored expiry it was taken with, and the table afterwards
Token(res, access_token, fresh, expiry, table) ==
    [res |-> res, access_token |-> access_token, fresh |-> fresh, expiry |-> expiry,
     table |-> table]

\* oauth::get_access_token: the stored token, refreshed and saved when the time
\* is past expiry - 60; `if let Ok(Some(row)) = result.next()` falls through
\* to Ok(String::default()) when there is no row or the cursor fails.
oauth_get_access_token(table, time, expires_in, fault) ==
    IF fault = "db" THEN Token("Err", NoToken, FALSE, 0, table)
    ELSE IF table = <<>> \/ fault = "step" THEN Token("Ok", NoToken, FALSE, 0, table)
    ELSE IF time > table[1].expiry - Margin
    THEN Then(refresh_access_token(time, expires_in, fault), LAMBDA new_token :
            IF new_token.res = "Err" THEN Token("Err", NoToken, FALSE, table[1].expiry, table)
            ELSE Then(save_to_database(table, new_token, time, fault), LAMBDA saved :
                    IF saved.res = "Err"
                    THEN Token("Err", NoToken, FALSE, table[1].expiry, saved.table)
                    ELSE Token("Ok", new_token.access_token, TRUE, table[1].expiry,
                               saved.table)))
    ELSE Token("Ok", table[1].access_token, FALSE, table[1].expiry, table)

NoCall == [res |-> "none", access_token |-> NoToken, fresh |-> FALSE, expiry |-> 0, at |-> 0]

(***************************************************************************)
(* The configuration (src/src/config.rs) and `gsync config` (main.rs).     *)
(***************************************************************************)
Options == {"client_id", "client_secret", "input_files", "drive_id"}

\* the values an option is given on the command line
Values == {"p", "q"}

\* Configuration::empty
empty == [o \in Options |-> None]

\* is_complete without the test of input_files
is_complete_without_files(c) == c["client_id"] # None /\ c["client_secret"] # None

\* Configuration::is_complete: drive_id may be None
is_complete(c) ==
    c["client_id"] # None /\ c["client_secret"] # None /\ c["input_files"] # None

\* Configuration::merge(a, b): the option of a when it is Some, else that of b
merge(a, b) ==
    [client_id |-> IF a["client_id"] # None THEN a["client_id"] ELSE b["client_id"],
     client_secret |-> IF a["client_secret"] # None THEN a["client_secret"]
                       ELSE b["client_secret"],
     input_files |-> IF a["input_files"] # None THEN a["input_files"]
                     ELSE b["input_files"],
     drive_id |-> IF a["drive_id"] # None THEN a["drive_id"] ELSE b["drive_id"]]

\* Configuration::get_config: the first row of the table, empty() without a row
get_config(table, fault) ==
    IF fault = "get" THEN [res |-> "Err", config |-> empty]
    ELSE IF table = <<>> THEN [res |-> "Ok", config |-> empty]
    ELSE [res |-> "Ok", config |-> table[1]]

\* Configuration::write: DELETE FROM config, then INSERT of the one row
write(table, c, fault) ==
    IF fault = "delete" THEN [res |-> "Err", table |-> table]
    ELSE IF fault = "insert" THEN [res |-> "Err", table |-> <<>>]
    ELSE [res |-> "Ok", table |-> << c >>]

\* main, `config` subcommand, lines 129-151: the exit code and the table
config_command(table, new_config, fault) ==
    Then(get_config(table, fault), LAMBDA current_config :
        IF current_config.res = "Err" THEN [exit |-> 1, table |-> table]
        ELSE Then(merge(new_config, current_config.config), LAMBDA merged :
            IF ~is_complete(merged) THEN [exit |-> 1, table |-> table]
            ELSE Then(write(table, merged, fault), LAMBDA written :
                    [exit |-> IF written.res = "Err" THEN 1 ELSE 0,
                     table |-> written.table])))

NoCommand == [ran |-> FALSE, new |-> empty, prev |-> empty, exit |-> 0]

(***************************************************************************)
(* Initial states.                                                         *)
(***************************************************************************)
\* before the first run: no run before it
NoPrior == [fs |-> << >>, faults |-> 0, retry |-> FALSE, listed |-> FALSE, gen |-> 0]

\* normalize_path was not called yet: no part of the input is normalised
NoPaths == << >>

\* parse_gitignore was not called yet (a rule is an absolute path)
NoRules == << << "none" >> >>

\* `gsync login` was not started: no server, nothing on the channel, no
\* callback handled
NoLogin ==
    [pc |-> "none", state |-> None, server |-> "none", tx |-> <<>>, shown |-> FALSE,
     code |-> None, handled |-> <<>>, exited |-> FALSE]

\* the working directory the program is started in
Home == << SEP, "w" >>

\* a tree that was not built yet
NoTree == Traversed("none", <<>>, <<>>)

\* before the first run: the State Store and the remote store are empty
Fresh ==
    /\ changes = 0
    /\ files = <<>>
    /\ remote = {}
    /\ IDS = <<>>
    /\ gen = 0
    /\ root_folder = NoId
    /\ pc = "idle"
    /\ work = <<>>
    /\ cursor = <<>>
    /\ result = "none"
    /\ runs = 0 /\ faults = 0 /\ oobs = 0
    /\ calls = <<>>
    /\ last = NoLast
    /\ removed = <<>>
    /\ deleted = {}
    /\ stale0 = <<>>
    /\ files0 = <<>>
    /\ visited = {}
    /\ failed = FALSE
    /\ second = FALSE
    /\ quiet = FALSE
    /\ conns_peak = 0
    /\ tree = NoTree
    /\ now = 0
    /\ token = NoCall
    /\ cmd = NoCommand
    /\ prior = NoPrior
    /\ normal = NoPaths
    /\ parsed = NoRules
    /\ login = NoLogin

\* a complete configuration
Complete == [empty EXCEPT !["client_id"] = "p", !["client_secret"] = "p",
                          !["input_files"] = "p"]

\* `gsync config` and `gsync login` were run: the configuration is complete
\* and the user table holds a token
Configured ==
    /\ config = << Complete >>
    /\ user = << UserRow(150, "refresh", 150) >>

\* no sync run is going on: one local tree, nothing stored
Still ==
    /\ fs = FsOf(1, 0, 0)
    /\ reversed = FALSE
    /\ input_files = << <<SEP, "a">> >>
    /\ Fresh

Init ==
    /\ fs \in FsInitial
    /\ PWD = Home
    /\ reversed \in BOOLEAN
    /\ input_files \in InputChoices
    /\ Fresh
    /\ Configured

(***************************************************************************)
(* Actions.                                                                *)
(***************************************************************************)
\* the folders a listing for `name` returns, one of which the caller takes
AdoptChoices(name) ==
    LET found == { e.id : e \in { e \in remote : e.folder /\ e.name = name } }
    IN  IF found = {} THEN {NoId} ELSE found

\* the operations that may fail in one step: none once the bound is reached
Faults(points) == IF faults < MaxFaults THEN {"none"} \cup points ELSE {"none"}

\* The choices of the environment fit the call: the failing operation was
\* reached, and the folder taken from a listing was in it.
Valid(m) ==
    /\ m.listed => m.valid
    /\ m.fault # "none" => m.used

Commit(m) ==
    /\ files' = m.files
    /\ remote' = m.remote
    /\ IDS' = m.IDS
    /\ gen' = m.gen
    /\ conns_peak' = m.peak
    /\ failed' = m.failed
    /\ faults' = faults + (IF m.fault = "none" THEN 0 ELSE 1)

\* run_start with the include flags cleared before the inputs are traversed
run_start_reset_first(m, rev) ==
    Then(list_files(get_conn(m), GSYNC, "root_list"), LAMBDA list :
        IF list.res = "err" THEN [m |-> list.m, res |-> "Err", id |-> NoId, children |-> <<>>]
        ELSE Then(take_listed(list.m, list.found), LAMBDA taken :
        Then(IF list.found = {}
             THEN create_folder(taken.m, GSYNC, DriveRoot, "root_create")
             ELSE [m |-> taken.m, res |-> "ok", id |-> taken.id],
        LAMBDA root :
            IF root.res # "ok"
            THEN [m |-> root.m, res |-> "Err", id |-> NoId, children |-> <<>>]
            ELSE Then(reset_sync_include(root.m, "reset"), LAMBDA reset :
                IF reset.res = "err"
                THEN [m |-> reset.m, res |-> "Err", id |-> root.id, children |-> <<>>]
                ELSE Then(traverse_inputs(fs, rev, input_parts(PWD, input_files)),
                          LAMBDA nodes :
                    IF nodes.res # "Ok"
                    THEN [m |-> reset.m, res |-> nodes.res, id |-> root.id,
                          children |-> <<>>]
                    ELSE [m |-> reset.m, res |-> "Ok", id |-> root.id,
                          children |-> nodes.children])))))

\* main, `sync` subcommand (lines 198-236), then sync up to reset_sync_include:
\* the root folder 'GSync' is looked up or created, every input is traversed
\* (a failed traversal ends the run), the include flags are cleared.
run_start(m, rev) ==
    Then(list_files(get_conn(m), GSYNC, "root_list"), LAMBDA list :
        IF list.res = "err" THEN [m |-> list.m, res |-> "Err", id |-> NoId, children |-> <<>>]
        ELSE Then(take_listed(list.m, list.found), LAMBDA taken :
        Then(IF list.found = {}
             THEN create_folder(taken.m, GSYNC, DriveRoot, "root_create")
             ELSE [m |-> taken.m, res |-> "ok", id |-> taken.id],
        LAMBDA root :
            IF root.res # "ok"
            THEN [m |-> root.m, res |-> "Err", id |-> NoId, children |-> <<>>]
            ELSE Then(traverse_inputs(fs, rev, input_parts(PWD, input_files)),
                      LAMBDA nodes :
                IF nodes.res # "Ok"
                THEN [m |-> root.m, res |-> nodes.res, id |-> root.id, children |-> <<>>]
                ELSE Then(reset_sync_include(root.m, "reset"), LAMBDA reset :
                    IF reset.res = "err"
                    THEN [m |-> reset.m, res |-> "Err", id |-> root.id, children |-> <<>>]
                    ELSE [m |-> reset.m, res |-> "Ok", id |-> root.id,
                          children |-> nodes.children])))))

\* Configuration::is_empty
is_empty(c) == \A o \in Options : c[o] = None

\* no check of the user table: every caller counts as logged in
is_logged_in_always(m) == [m |-> get_conn(m), res |-> "true"]

\* is_logged_in: a row of the user table was read.  A failure to open, prepare
\* or query is returned; a failure of the cursor ends the loop.
is_logged_in(m) ==
    Then(get_conn(m), LAMBDA c :
        IF Hit(c, "login_db") THEN [m |-> Fail(c), res |-> "err"]
        ELSE IF Hit(c, "login_step") THEN [m |-> Fail(c), res |-> "false"]
        ELSE [m |-> c, res |-> IF user = <<>> THEN "false" ELSE "true"])

\* main, `sync` subcommand, lines 198-240: "Exit" is exit code 0 without a
\* run, "Err" is exit code 1
sync_command(m, rev) ==
    LET exit(n, res) == [m |-> n, res |-> res, id |-> NoId, children |-> <<>>]
    IN  Then(get_config(config, m.fault), LAMBDA stored :
            IF stored.res = "Err" THEN exit(Fail(get_conn(m)), "Err")
            ELSE IF is_empty(stored.config) THEN exit(get_conn(m), "Exit")
            ELSE IF ~is_complete(stored.config) THEN exit(get_conn(m), "Err")
            ELSE Then(is_logged_in(m), LAMBDA logged :
                    IF logged.res # "true" THEN exit(logged.m, "Err")
                    ELSE run_start(logged.m, rev)))

Items(children, at_root) ==
    [i \in 1..Len(children) |-> [child |-> children[i], at_root |-> at_root]]

\* one invocation of `gsync sync`, the limit-th at most
Run(limit) ==
    /\ pc = "idle"
    /\ runs < limit
    /\ \E fault \in Faults({"get", "login_db", "login_step", "root_list", "root_create",
                             "reset"}),
          adopt \in AdoptChoices(GSYNC) :
          \E r \in {sync_command([Machine(fault, adopt, 0) EXCEPT !.IDS = <<>>,
                                                                 !.failed = FALSE],
                                   reversed)} :
              /\ Valid(r.m)
              /\ Commit(r.m)
              /\ calls' = r.m.log
              /\ root_folder' = r.id
              /\ work' = Items(r.children, TRUE)
              /\ pc' = IF r.res = "Ok" THEN "sync" ELSE "idle"
              /\ result' = IF r.res = "Ok" THEN "none" ELSE r.res
              /\ second' = (quiet /\ r.res = "Ok")
              /\ quiet' = FALSE
              /\ prior' = [fs |-> fs, faults |-> faults,
                           retry |-> result = "Err" /\ deleted # {} /\ removed = <<>>
                                     /\ prior.fs = fs,
                           listed |-> r.m.listed, gen |-> gen]
    /\ runs' = runs + 1
    /\ files0' = files
    /\ last' = NoLast
    /\ removed' = <<>>
    /\ deleted' = {}
    /\ stale0' = <<>>
    /\ cursor' = <<>>
    /\ visited' = {}
    /\ UNCHANGED aux_vars
    /\ UNCHANGED << fs, reversed, changes, input_files, oobs >>

StartRun == Run(MaxRuns)

\* one call of sync_child; its children are next, before the remaining siblings
SyncChild ==
    /\ pc = "sync"
    /\ work # <<>>
    /\ \E fault \in Faults({"lookup_db", "lookup_step", "parent_db", "parent_step",
                             "list", "create", "repair_db", "repair_step", "repair",
                             "retry", "insert", "touch", "update", "upload"}),
          adopt \in AdoptChoices(Head(work).child.name) :
          \E item \in {Head(work)},
             r \in {sync_child(Machine(fault, adopt, 0), Head(work).child,
                               Head(work).at_root)} :
              /\ Valid(r.m)
              /\ Commit(r.m)
              /\ calls' = calls \o r.m.log
              /\ last' = [kind |-> item.child.kind, path |-> item.child.path,
                          at_root |-> item.at_root, rec |-> r.rec, stored |-> r.stored,
                          rec_id |-> r.rec_id,
                          local |-> get_modification_time(item.child.path),
                          log |-> r.m.log, res |-> r.res, pushed |-> Len(r.children),
                          inserted |-> Len(r.m.files) > Len(files),
                          failed |-> r.m.failed, fault |-> fault,
                          taken |-> IF r.m.listed THEN r.m.adopt ELSE NoId]
              /\ visited' = visited \cup {item.child.path}
              /\ work' = IF r.res = "Ok" THEN Items(r.children, FALSE) \o Tail(work)
                         ELSE <<>>
              /\ pc' = IF r.res = "Ok" THEN "sync" ELSE "idle"
              /\ result' = IF r.res = "Ok" THEN result ELSE r.res
    /\ UNCHANGED aux_vars
    /\ UNCHANGED << prior, fs, reversed, changes, input_files, root_folder, cursor, runs, oobs, removed, deleted,
                    stale0, files0, second, quiet >>

\* remote_delete_removed, lines 154-156: the connection is opened and the
\* stale rows are selected; the connection, the statement and the cursor stay
\* open until the function returns.
BeginSweep ==
    /\ pc = "sync"
    /\ work = <<>>
    /\ \E fault \in Faults({"sweep_db"}) :
          \E r \in {IF fault = "sweep_db" THEN Fail(get_conn(Machine(fault, NoId, 0)))
                     ELSE get_conn(Machine(fault, NoId, 0))},
             stale \in {SelectSeq(files, LAMBDA row : row.sync_include = 0)} :
              /\ Valid(r)
              /\ Commit(r)
              /\ cursor' = IF r.used THEN <<>> ELSE stale
              /\ stale0' = IF r.used THEN <<>> ELSE stale
              /\ pc' = IF r.used THEN "idle" ELSE "sweep"
              /\ result' = IF r.used THEN "Err" ELSE result
    /\ UNCHANGED aux_vars
    /\ UNCHANGED << prior, fs, reversed, changes, input_files, root_folder, work, runs, oobs, calls, last, removed,
                    deleted, files0, visited, second, quiet >>

\* remote_delete_removed, lines 157-164: one turn of `while let Ok(Some(row)) =
\* result.next()`.  A cursor error ends the loop like the end of the rows.
SweepRow ==
    /\ pc = "sweep"
    /\ cursor # <<>>
    /\ \E fault \in Faults({"sweep_step", "delete"}) :
          \E row \in {Head(cursor)},
             r \in {IF fault = "sweep_step"
                    THEN [m |-> Fail(Machine(fault, NoId, 1)), res |-> "end"]
                    ELSE delete_file(Machine(fault, NoId, 1), Head(cursor).id, "delete")} :
              /\ Valid(r.m)
              /\ Commit(r.m)
              /\ calls' = calls \o r.m.log
              /\ cursor' = IF r.res = "ok" THEN Tail(cursor) ELSE <<>>
              /\ deleted' = IF r.res = "ok" THEN deleted \cup {row.id} ELSE deleted
              /\ pc' = IF r.res \in {"ok", "end"} THEN "sweep" ELSE "idle"
              /\ result' = IF r.res \in {"ok", "end"} THEN result ELSE "Err"
    /\ UNCHANGED aux_vars
    /\ UNCHANGED << prior, fs, reversed, changes, input_files, root_folder, work, runs, oobs, last, removed,
                    stale0, files0, visited, second, quiet >>

\* remote_delete_removed, line 166: DELETE FROM files WHERE sync_include = `false`,
\* on the connection opened at line 154.  The statement fails on a database
\* error, which includes an SQLite that reads `false` as a column name.
SweepDelete ==
    /\ pc = "sweep"
    /\ cursor = <<>>
    /\ \E fault \in Faults({"sweep_delete"}) :
          \E r \in {IF fault = "sweep_delete" THEN Fail(Machine(fault, NoId, 1))
                     ELSE [Machine(fault, NoId, 1) EXCEPT
                              !.files = SelectSeq(@, LAMBDA row : row.sync_include # 0)]} :
              /\ Valid(r)
              /\ Commit(r)
              /\ removed' = IF r.used THEN <<>>
                            ELSE SelectSeq(files, LAMBDA row : row.sync_include = 0)
              /\ result' = IF r.used THEN "Err" ELSE "Ok"
              /\ quiet' = ~r.used
    /\ pc' = "idle"
    /\ UNCHANGED aux_vars
    /\ UNCHANGED << prior, fs, reversed, changes, input_files, root_folder, work, cursor, runs, oobs, calls, last,
                    deleted, stale0, files0, visited, second >>

\* the part of the tree at and below one child of the root
Part(f, name) == { <<c, f[c]>> : c \in { c \in DOMAIN f : Len(c) > 1 /\ c[2] = name } }

\* two trees that differ at and below exactly one child of the root
OneEdit(f, g) ==
    Cardinality({ name \in {"x", "d", GITIGNORE} : Part(f, name) # Part(g, name) }) = 1

\* The user edits the local tree between two runs: a file is written, touched
\* or removed, a directory is made, filled or removed.
LocalChange ==
    /\ pc = "idle"
    /\ changes < MaxChanges
    /\ \E f \in FsConfigs : OneEdit(fs, f) /\ fs' = f
    /\ changes' = changes + 1
    /\ quiet' = FALSE
    /\ UNCHANGED aux_vars
    /\ UNCHANGED << prior, reversed, input_files, files, remote, IDS, gen, root_folder, pc, work, cursor,
                    result, runs, faults, oobs, calls, last, removed, deleted, stale0,
                    files0, visited, failed, second, conns_peak >>

\* Somebody else deletes an entity of the remote store.
OobDelete ==
    /\ oobs < MaxOob
    /\ \E e \in remote : remote' = RemoteDelete(remote, e.id)
    /\ oobs' = oobs + 1
    /\ quiet' = FALSE
    /\ second' = FALSE
    /\ UNCHANGED aux_vars
    /\ UNCHANGED << prior, fs, reversed, changes, input_files, files, IDS, gen, root_folder, pc, work, cursor,
                    result, runs, faults, calls, last, removed, deleted, stale0, files0,
                    visited, failed, conns_peak >>

\* Somebody else creates a folder in the top folder of the remote store.
OobCreate ==
    /\ oobs < MaxOob
    /\ \E name \in {"a", "d"} :
          remote' = remote \cup {[id |-> gen + 1, name |-> name, parent |-> DriveRoot,
                                  folder |-> TRUE]}
    /\ gen' = gen + 1
    /\ oobs' = oobs + 1
    /\ quiet' = FALSE
    /\ second' = FALSE
    /\ UNCHANGED aux_vars
    /\ UNCHANGED << prior, fs, reversed, changes, input_files, files, IDS, root_folder, pc, work, cursor,
                    result, runs, faults, calls, last, removed, deleted, stale0, files0,
                    visited, failed, conns_peak >>

Next ==
    \/ StartRun
    \/ SyncChild
    \/ BeginSweep
    \/ SweepRow
    \/ SweepDelete
    \/ LocalChange
    \/ OobDelete
    \/ OobCreate

Spec == Init /\ [][Next]_vars

(***************************************************************************)
(* The tree builder on its own: the first loop of sync (lines 17-31) over  *)
(* trees with a sibling directory /a/e, a rule file in /a/d and in /a,     *)
(* several input roots, and entries that cannot be read.                   *)
(***************************************************************************)
\* the line of the rule file /a/d/.gitignore
RuleLines ==
    { <<"y">>, <<SEP, "y">>, <<"x">>, <<"e">>, <<"d">>, <<GITIGNORE>>,
      <<DOTDOT, SEP, "x">>, <<DOTDOT, SEP, "e">>, <<DOTDOT, SEP, "e", SEP, "z">>,
      <<DOTDOT>>, <<DOT>>, <<SEP>>, <<"#", "y">>, <<>> }

\* the line of the rule file /a/.gitignore
RootLines == { <<"d">>, <<"d", SEP, "y">>, <<"e">>, <<"x">> }

\* no rule file in the directory (a value that is none of the rule files)
Absent == << << "absent" >> >>

\* the entries that cannot be read: none, or one directory or rule file
Denials ==
    { <<>>, <<"a", "d">>, <<"a", "e">>, <<"a", GITIGNORE>>, <<"a", "d", GITIGNORE>> }

TreeOf(x, y, e, rules_d, rules_a, denied) ==
    LET dom == {<<"a">>, <<"a", "d">>}
               \cup (IF x THEN {<<"a", "x">>} ELSE {})
               \cup (IF y THEN {<<"a", "d", "y">>} ELSE {})
               \cup (IF e THEN {<<"a", "e">>, <<"a", "e", "z">>} ELSE {})
               \cup (IF rules_d # Absent THEN {<<"a", "d", GITIGNORE>>} ELSE {})
               \cup (IF rules_a # Absent THEN {<<"a", GITIGNORE>>} ELSE {})
        entry(c) == IF c = <<"a", "d", GITIGNORE>> THEN RuleEntry(rules_d)
                    ELSE IF c = <<"a", GITIGNORE>> THEN RuleEntry(rules_a)
                    ELSE IF c \in {<<"a">>, <<"a", "d">>, <<"a", "e">>} THEN DirEntry
                    ELSE FileEntry(1)
    IN  [c \in dom |-> [entry(c) EXCEPT !.read = (c # denied)]]

TreeFs ==
    { TreeOf(x, y, e, rules_d, rules_a, denied) :
        x \in BOOLEAN, y \in BOOLEAN, e \in BOOLEAN,
        rules_d \in {Absent} \cup { << l >> : l \in RuleLines },
        rules_a \in {Absent} \cup { << l >> : l \in RootLines },
        denied \in Denials }

\* config.input_files: one root, or two roots of which one may be inside the other
TreeInputs ==
    { << <<SEP, "a">> >>, << <<SEP, "a", SEP>> >>,
      << <<SEP, "a">>, <<SEP, "a", SEP, "d">> >>,
      << <<SEP, "a", SEP, "d">>, <<SEP, "a">> >>,
      << <<SEP, "a", SEP, "d">>, <<SEP, "a", SEP, "e">> >> }

InitTree ==
    /\ fs \in TreeFs
    /\ PWD = Home
    /\ reversed \in BOOLEAN
    /\ input_files \in { i \in TreeInputs : \A k \in 1..Len(i) : exists(fs, i[k]) }
    /\ Fresh
    /\ Configured

\* sync, lines 17-31: every input root is traversed
Traverse ==
    /\ tree = NoTree
    /\ tree' = traverse_inputs(fs, reversed, input_parts(PWD, input_files))
    /\ UNCHANGED << sync_vars, user, now, token, config, cmd, PWD, normal, parsed, login >>

NextTree == Traverse

SpecTree == InitTree /\ [][NextTree]_vars

(***************************************************************************)
(* The login on its own: `gsync login`, the clock, and get_access_token as *)
(* the functions of src/src/api/drive.rs call it.                          *)
(***************************************************************************)
InitAuth ==
    /\ Still
    /\ PWD = Home
    /\ config = << Complete >>
    /\ user = <<>>

\* main, `login` subcommand, lines 188-193: the tokens of the login are saved
Login ==
    /\ \E expires_in \in Lifetimes, refresh_token \in RefreshTokens,
          fault \in {"none", "save_db", "save"} :
          user' = save_to_database(user,
                                   exchange_access_token(now, expires_in, refresh_token),
                                   now, fault).table
    /\ UNCHANGED << sync_vars, tree, now, token, config, cmd, PWD, normal, parsed, login >>

\* time passes
Tick ==
    /\ now < MaxClock
    /\ now' = now + 30
    /\ UNCHANGED << sync_vars, tree, user, token, config, cmd, PWD, normal, parsed, login >>

\* one call of get_access_token
GetAccessToken ==
    /\ \E expires_in \in Lifetimes,
          fault \in {"none", "db", "step", "refresh", "save_db", "save"} :
          \E r \in {oauth_get_access_token(user, now, expires_in, fault)} :
              /\ user' = r.table
              /\ token' = [res |-> r.res, access_token |-> r.access_token,
                           fresh |-> r.fresh, expiry |-> r.expiry, at |-> now]
    /\ UNCHANGED << sync_vars, tree, now, config, cmd, PWD, normal, parsed, login >>

NextAuth ==
    \/ Login
    \/ Tick
    \/ GetAccessToken

SpecAuth == InitAuth /\ [][NextAuth]_vars

(***************************************************************************)
(* `gsync config` on its own.                                              *)
(***************************************************************************)
InitConfig ==
    /\ Still
    /\ PWD = Home
    /\ config = <<>>
    /\ user = <<>>

\* the configuration get_config reads from a table
Stored(table) == IF table = <<>> THEN empty ELSE table[1]

\* main, `config` subcommand, lines 129-151
ConfigCommand ==
    /\ \E new_config \in [Options -> Values \cup {None}],
          fault \in {"none", "get", "delete", "insert"} :
          \E r \in {config_command(config, new_config, fault)} :
              /\ config' = r.table
              /\ cmd' = [ran |-> TRUE, new |-> new_config, prev |-> Stored(config),
                         exit |-> r.exit]
    /\ UNCHANGED << sync_vars, tree, user, now, token, PWD, normal, parsed, login >>

NextConfig == ConfigCommand

SpecConfig == InitConfig /\ [][NextConfig]_vars

(***************************************************************************)
(* Runs that follow a failed run: one run more than in Spec, over the tree *)
(* /a with the file /a/x, one edit of the tree, no change of the remote    *)
(* store from outside.                                                     *)
(***************************************************************************)
InitRetry ==
    /\ fs = FsOf(1, 0, 0)
    /\ reversed \in BOOLEAN
    /\ input_files = << << SEP, "a" >> >>
    /\ PWD = Home
    /\ Fresh
    /\ Configured

\* `gsync sync` is invoked once more
RunAgain == Run(MaxRuns + 1)

NextRetry ==
    \/ RunAgain
    \/ SyncChild
    \/ BeginSweep
    \/ SweepRow
    \/ SweepDelete
    \/ LocalChange

SpecRetry == InitRetry /\ [][NextRetry]_vars

(***************************************************************************)
(* The phases of a run: trees with two directories, one or two input       *)
(* roots, and a directory or rule file that becomes unreadable between two *)
(* runs, so that the traversal of a run fails.                             *)
(***************************************************************************)
\* /a with x, d (y, with or without a rule file) and e (z)
PhaseFs ==
    { TreeOf(TRUE, TRUE, TRUE, rules_d, Absent, <<>>) :
        rules_d \in { Absent, << << "y" >> >> } }

PhaseInputs ==
    { << <<SEP, "a">> >>,
      << <<SEP, "a", SEP, "d">>, <<SEP, "a", SEP, "e">> >>,
      << <<SEP, "a", SEP, "d">>, <<SEP, "a">> >> }

InitPhases ==
    /\ fs \in PhaseFs
    /\ reversed \in BOOLEAN
    /\ input_files \in PhaseInputs
    /\ PWD = Home
    /\ Fresh
    /\ Configured

\* The permissions of a directory or of a rule file are changed between two
\* runs: it cannot be read any more.
Deny ==
    /\ pc = "idle"
    /\ changes < MaxChanges
    /\ \E c \in DOMAIN fs :
          /\ fs[c].kind = "dir" \/ c[Len(c)] = GITIGNORE
          /\ fs[c].read
          /\ fs' = [fs EXCEPT ![c].read = FALSE]
    /\ changes' = changes + 1
    /\ quiet' = FALSE
    /\ UNCHANGED aux_vars
    /\ UNCHANGED << prior, reversed, input_files, files, remote, IDS, gen, root_folder, pc,
                    work, cursor, result, runs, faults, oobs, calls, last, removed, deleted,
                    stale0, files0, visited, failed, second, conns_peak >>

NextPhases ==
    \/ StartRun
    \/ SyncChild
    \/ BeginSweep
    \/ SweepRow
    \/ SweepDelete
    \/ Deny

SpecPhases == InitPhases /\ [][NextPhases]_vars

(***************************************************************************)
(* normalize_path on its own (sync, line 15), over every input text of up  *)
(* to MaxLen tokens and several working directories.                       *)
(***************************************************************************)
\* the longest input text
MaxLen == 3

\* what an input text is made of
Alphabet == {SEP, DOT, DOTDOT, GITIGNORE, "a"}

\* the texts of up to n tokens
RECURSIVE Texts(_)
Texts(n) ==
    IF n = 0 THEN { <<>> }
    ELSE Texts(n - 1) \cup { Append(t, c) : t \in { t \in Texts(n - 1) : Len(t) = n - 1 },
                                            c \in Alphabet }

\* the values of PWD: the top directory, a directory, a directory written with
\* a trailing separator
WorkingDirs == { << SEP >>, Home, << SEP, "w", SEP >> }

InitPath ==
    /\ Fresh
    /\ fs = FsOf(1, 0, 0)
    /\ reversed = FALSE
    /\ config = << Complete >>
    /\ user = <<>>
    /\ PWD \in WorkingDirs
    /\ input_files \in { << t >> : t \in Texts(MaxLen) }
                       \cup { << << "a" >>, << DOT, SEP, "a" >>, << SEP, "a" >> >> }

\* sync, line 15
NormalizePath ==
    /\ normal = NoPaths
    /\ normal' = input_parts(PWD, input_files)
    /\ UNCHANGED << sync_vars, tree, user, now, token, config, cmd, PWD, parsed, login >>

NextPath == NormalizePath

SpecPath == InitPath /\ [][NextPath]_vars

(***************************************************************************)
(* parse_gitignore on its own, over every rule file of up to MaxLines      *)
(* lines of up to two tokens, in the directory /a or /a/d.                 *)
(***************************************************************************)
\* the most lines of a rule file
MaxLines == 3

\* a line: empty, or up to two of a separator, a comment sign and a name
LineTexts ==
    LET tokens == {SEP, "#", "y"}
    IN  { <<>> } \cup { << c >> : c \in tokens } \cup { << c, e >> : c \in tokens, e \in tokens }

\* the rule files of up to n lines
RECURSIVE Contents(_)
Contents(n) ==
    IF n = 0 THEN { <<>> }
    ELSE Contents(n - 1) \cup { Append(t, l) : t \in { t \in Contents(n - 1) : Len(t) = n - 1 },
                                               l \in LineTexts }

\* the tree /a, /a/d with one rule file
RuleTree(in_d, lines) ==
    [c \in {<<"a">>, <<"a", "d">>,
            IF in_d THEN <<"a", "d", GITIGNORE>> ELSE <<"a", GITIGNORE>>} |->
        IF c \in {<<"a">>, <<"a", "d">>} THEN DirEntry ELSE RuleEntry(lines)]

\* the path of the rule file of the tree, as traverse passes it
gitignore_path(fsys) ==
    IF <<"a", "d", GITIGNORE>> \in DOMAIN fsys
    THEN join(<<SEP, "a", SEP, "d">>, GITIGNORE)
    ELSE join(<<SEP, "a">>, GITIGNORE)

InitRules ==
    /\ Fresh
    /\ fs \in { RuleTree(in_d, lines) : in_d \in BOOLEAN, lines \in Contents(MaxLines) }
    /\ reversed = FALSE
    /\ input_files = << <<SEP, "a">> >>
    /\ PWD = Home
    /\ Configured

\* traverse, line 291: the rule file of a directory is parsed
ParseGitignore ==
    /\ parsed = NoRules
    /\ parsed' = parse_gitignore(fs, gitignore_path(fs))
    /\ UNCHANGED << sync_vars, tree, user, now, token, config, cmd, PWD, normal, login >>

NextRules == ParseGitignore

SpecRules == InitRules /\ [][NextRules]_vars

(***************************************************************************)
(* `gsync sync` started with and without a stored configuration and a      *)
(* login, and a `gsync config` command between two runs.                   *)
(***************************************************************************)
InitCommand ==
    /\ Fresh
    /\ fs = FsOf(1, 0, 0)
    /\ reversed = FALSE
    /\ input_files = << <<SEP, "a">> >>
    /\ PWD = Home
    /\ config \in { <<>>, << Complete >> }
    /\ user \in { <<>>, << UserRow(150, "refresh", 150) >> }

\* main, `config` subcommand, run once between two runs with a drive id
Reconfigure ==
    /\ pc = "idle"
    /\ ~cmd.ran
    /\ \E new_config \in {[empty EXCEPT !["drive_id"] = "q"]},
          fault \in {"none", "get", "delete", "insert"} :
          \E r \in {config_command(config, new_config, fault)} :
              /\ config' = r.table
              /\ cmd' = [ran |-> TRUE, new |-> new_config, prev |-> Stored(config),
                         exit |-> r.exit]
    /\ UNCHANGED << sync_vars, tree, user, now, token, PWD, normal, parsed, login >>

NextCommand ==
    \/ StartRun
    \/ SyncChild
    \/ BeginSweep
    \/ SweepRow
    \/ SweepDelete
    \/ Reconfigure

SpecCommand == InitCommand /\ [][NextCommand]_vars

(***************************************************************************)
(* `gsync login` (src/src/login/mod.rs, callback_endpoint.rs): the flow of *)
(* perform_oauth2_login, the thread of the callback server, and the        *)
(* requests the server handles.                                            *)
(***************************************************************************)
\* the most requests the callback server gets
MaxRequests == 2

\* the values of the state parameter and of the code of a request
States == {"s", "t"}
Codes == {"c", "e"}

\* the query strings: state may be missing, code and error are optional
Queries == [code : Codes \cup {None}, error : {None, "denied"}, state : States \cup {None}]

\* the handler answers without sending the code when the state differs
authorization_any_state(data, query) ==
    IF query.state = None THEN "BadRequest"
    ELSE IF query.error # None THEN "BadRequest"
    ELSE IF query.code = None THEN "unreachable"
    ELSE "Ok"

\* callback_endpoint::authorization: the answer, "exit" for process::exit(1),
\* "unreachable" for the panic of unreachable!(); the code is sent with "Ok"
authorization(data, query) ==
    IF query.state = None THEN "BadRequest"
    ELSE IF query.error # None THEN "BadRequest"
    ELSE IF query.code = None THEN "unreachable"
    ELSE IF data.state # query.state THEN "exit"
    ELSE "Ok"

InitLogin ==
    /\ Still
    /\ PWD = Home
    /\ config = << Complete >>
    /\ user \in { <<>>, << UserRow(150, "refresh", 150) >> }

\* main, lines 171-185, and perform_oauth2_login, lines 19-42: the state is
\* generated and the thread of the server is spawned
SpawnServer ==
    /\ login.pc = "none"
    /\ ~is_empty(Stored(config)) /\ is_complete(Stored(config))
    /\ \E state \in States :
          login' = [login EXCEPT !.pc = "rx_srv", !.state = state, !.server = "spawned"]
    /\ UNCHANGED << sync_vars, tree, user, now, token, config, cmd, PWD, normal, parsed >>

\* start_actix: the server is bound and run and its handle is sent; when the
\* bind fails the thread panics and the sender of the handle is dropped
StartActix ==
    /\ login.server = "spawned" /\ ~login.exited
    /\ \E bound \in BOOLEAN :
          login' = [login EXCEPT !.server = IF bound THEN "running" ELSE "panicked"]
    /\ UNCHANGED << sync_vars, tree, user, now, token, config, cmd, PWD, normal, parsed >>

\* perform_oauth2_login, lines 43-48: the handle is received and the
\* authorization URL is shown; an error is returned when the sender is gone
ShowUri ==
    /\ login.pc = "rx_srv" /\ ~login.exited
    /\ login.server \in {"running", "panicked"}
    /\ login' = IF login.server = "running"
                THEN [login EXCEPT !.pc = "rx_code", !.shown = TRUE]
                ELSE [login EXCEPT !.pc = "Err"]
    /\ UNCHANGED << sync_vars, tree, user, now, token, config, cmd, PWD, normal, parsed >>

\* a request reaches the callback server and is handled
Callback ==
    /\ login.server = "running" /\ ~login.exited
    /\ Len(login.handled) < MaxRequests
    /\ \E query \in Queries :
          \E answer \in {authorization(login, query)} :
              login' = [login EXCEPT
                           !.handled = Append(@, [query |-> query, answer |-> answer]),
                           !.tx = IF answer = "Ok" THEN Append(@, query.code) ELSE @,
                           !.exited = (answer = "exit")]
    /\ UNCHANGED << sync_vars, tree, user, now, token, config, cmd, PWD, normal, parsed >>

\* perform_oauth2_login, lines 50-51: the code is received from the channel
ReceiveCode ==
    /\ login.pc = "rx_code" /\ ~login.exited
    /\ login.tx # <<>>
    /\ login' = [login EXCEPT !.pc = "stop", !.code = Head(login.tx),
                              !.tx = Tail(login.tx)]
    /\ UNCHANGED << sync_vars, tree, user, now, token, config, cmd, PWD, normal, parsed >>

\* perform_oauth2_login, lines 55-56: the server is stopped
StopServer ==
    /\ login.pc = "stop" /\ ~login.exited
    /\ login' = [login EXCEPT !.pc = "exchange", !.server = "stopped"]
    /\ UNCHANGED << sync_vars, tree, user, now, token, config, cmd, PWD, normal, parsed >>

\* perform_oauth2_login, line 58, and main, lines 188-193: the code is
\* exchanged for the tokens and the tokens are saved
SaveTokens ==
    /\ login.pc = "exchange" /\ ~login.exited
    /\ \E expires_in \in Lifetimes, refresh_token \in RefreshTokens,
          fault \in {"none", "exchange", "save_db", "save"} :
          IF fault = "exchange"
          THEN /\ login' = [login EXCEPT !.pc = "Err"]
               /\ user' = user
          ELSE \E saved \in {save_to_database(user,
                                 exchange_access_token(now, expires_in, refresh_token),
                                 now, fault)} :
                  /\ user' = saved.table
                  /\ login' = [login EXCEPT !.pc = IF saved.res = "Ok" THEN "done" ELSE "Err"]
    /\ UNCHANGED << sync_vars, tree, now, token, config, cmd, PWD, normal, parsed >>

NextLogin ==
    \/ SpawnServer
    \/ StartActix
    \/ ShowUri
    \/ Callback
    \/ ReceiveCode
    \/ StopServer
    \/ SaveTokens

SpecLogin == InitLogin /\ [][NextLogin]_vars

(***************************************************************************)
(* The claims of the specification, stated on the model.                   *)
(***************************************************************************)
\* the key insert_file stores for a path
KeyOf(p) == base64_encode(insert_path_str(p))

\* the calls of a log that satisfy a condition
CallsWhere(log, cond(_)) == { k \in 1..Len(log) : cond(log[k]) }

\* C1 (idempotence): a run that follows a run that returned Ok, with no edit
\* of the local tree, no out-of-band change of the remote store and no failure,
\* issues no create_folder, upload_file, update_file or delete_file call and
\* removes no record; every record is included again when the sweep starts.
C1_idempotence ==
    (second /\ faults = 0 /\ oobs = 0) =>
        /\ calls = <<>>
        /\ removed = <<>>
        /\ (pc = "sweep" => \A i \in 1..Len(files) : files[i].sync_include = 1)

\* C2 (convergence): after a run that returned Ok every node of the tree has
\* a record with a non-empty remote id.
C2_convergence ==
    (pc = "idle" /\ result = "Ok") =>
        \A p \in visited : \E i \in 1..Len(files) :
            files[i].path = KeyOf(p) /\ files[i].id # NoId

\* C3 (deletion): a record whose path is not in the tree of a run that returned
\* Ok got exactly one delete_file call for its remote id in that run, and is
\* no longer in the table.
C3_deletion ==
    (pc = "idle" /\ result = "Ok") =>
        \A i \in 1..Len(files0) :
            (\A p \in visited : files0[i].path # KeyOf(p)) =>
                /\ Cardinality(CallsWhere(calls, LAMBDA c :
                       c.op = "delete_file" /\ c.target = files0[i].id)) = 1
                /\ \A j \in 1..Len(files) : files[j].path # files0[i].path

C5_sweep_only_stale ==
    /\ \A k \in CallsWhere(calls, LAMBDA c : c.op = "delete_file") :
          \E i \in 1..Len(stale0) : stale0[i].id = calls[k].target
    /\ (pc = "idle" /\ result = "Ok") =>
          /\ removed = stale0
          /\ \A i \in 1..Len(files) : files[i].sync_include = 1
    /\ \A p \in visited :
          /\ \A i \in 1..Len(removed) : removed[i].path # KeyOf(p)
          /\ \A i \in 1..Len(files0) :
                files0[i].path = KeyOf(p) => files0[i].id \notin deleted

\* C6 (removal follows deletion): a record is removed from the table only
\* after delete_file for its remote id returned Ok in the same run; when a
\* delete_file call of the sweep failed no record is removed.
C6_removed_after_delete ==
    /\ \A i \in 1..Len(removed) : removed[i].id \in deleted
    /\ CallsWhere(calls, LAMBDA c : c.op = "delete_file" /\ c.res # "ok") # {}
          => removed = <<>>

\* C7 (one connection): at no point of a run is more than one connection to
\* the database open.
C7_one_connection == conns_peak <= 1

\* C8 (abort on error): when a database operation or a remote call failed in
\* the reconciliation of a node (the first 404 of create_folder aside), the
\* run has ended with that error: no further node is reconciled and the sweep
\* is not run.
C8_abort_on_error == last.failed => (pc = "idle" /\ result = "Err")

\* C9 (consistency under failure): between runs, with no out-of-band change
\* of the remote store, every included record names an entity the remote
\* store holds, and a run that failed left every record it started with in
\* the table with the same remote id.
C9_store_consistent ==
    (pc = "idle" /\ oobs = 0) =>
        /\ \A i \in 1..Len(files) :
              files[i].sync_include = 1 => Exists(remote, files[i].id)
        /\ result = "Err" =>
              \A i \in 1..Len(files0) : \E j \in 1..Len(files) :
                  files[j].path = files0[i].path /\ files[j].id = files0[i].id

\* C10 (retry exactly once): when create_folder for a directory fails with
\* 404 and nothing else fails on the way, the creation of that directory is
\* attempted exactly once more; a failed retry is returned as an error, the
\* directory gets no record and its children are not processed.  Another
\* error of create_folder is returned without a retry.
C10_retry_once ==
    /\ (/\ last.kind = "dir" /\ last.fault = "none"
        /\ CallsWhere(last.log, LAMBDA c : c.point = "create" /\ c.res = "404") # {})
          => /\ Cardinality(CallsWhere(last.log, LAMBDA c : c.point = "retry")) = 1
             /\ CallsWhere(last.log, LAMBDA c : c.point = "retry" /\ c.res # "ok") # {}
                   => (last.res = "Err" /\ ~last.inserted /\ last.pushed = 0)
    /\ CallsWhere(last.log, LAMBDA c : c.point = "create" /\ c.res = "err") # {}
          => /\ CallsWhere(last.log, LAMBDA c : c.point = "retry") = {}
             /\ last.res = "Err"

\* the paths of the nodes of a tree
RECURSIVE NodePaths(_)
NodePaths(children) ==
    IF children = <<>> THEN {}
    ELSE {Head(children).path} \cup NodePaths(Head(children).children)
         \cup NodePaths(Tail(children))

\* the directories that hold a rule file
RuleDirs(fsys) ==
    { c \in DOMAIN fsys : fsys[c].kind = "dir" /\ Append(c, GITIGNORE) \in DOMAIN fsys }

\* the file system with the rule file of directory D emptied
WithoutRules(fsys, D) == [fsys EXCEPT ![Append(D, GITIGNORE)].lines = <<>>]

\* p is a child of directory D or deeper
Inside(D, p) ==
    Len(Components(p)) > Len(D) /\ SubSeq(Components(p), 1, Len(D)) = D

\* C11 (exclusion additivity): the rules of the rule file of a directory D
\* leave out of the tree only paths inside D: compared with the tree built
\* when that rule file has no lines (and every entry then reached can be
\* read), the tree of every input root has no new
\* node and lacks only nodes that are children of D or deeper; D itself, its
\* siblings, their descendants and the ancestors of D stay, whatever the rule
\* text and the listing order.
C11_exclusion_additivity ==
    tree.res = "Ok" =>
        \A D \in RuleDirs(fs) :
            LET bare == traverse_inputs(WithoutRules(fs, D), reversed, input_files)
            IN  bare.res = "Ok" =>
                    \A i \in 1..Len(input_files) :
                        /\ NodePaths(<< tree.children[i] >>)
                              \subseteq NodePaths(<< bare.children[i] >>)
                        /\ \A p \in NodePaths(<< bare.children[i] >>)
                                      \ NodePaths(<< tree.children[i] >>) : Inside(D, p)

\* C11: the rule file of /a/d left /a/d/y out of the tree of /a, and /a/d, the
\* sibling file /a/x and the sibling directory /a/e with /a/e/z are nodes
C11_witness ==
    /\ tree.res = "Ok"
    /\ input_files = << <<SEP, "a">> >>
    /\ <<"a", "d", "y">> \in DOMAIN fs
    /\ <<"a", "d", GITIGNORE>> \in DOMAIN fs
    /\ <<"a", GITIGNORE>> \notin DOMAIN fs
    /\ <<SEP, "a", SEP, "d", SEP, "y">> \notin NodePaths(tree.children)
    /\ { <<SEP, "a", SEP, "d">>, <<SEP, "a", SEP, "x">>, <<SEP, "a", SEP, "e">>,
         <<SEP, "a", SEP, "e", SEP, "z">> } \subseteq NodePaths(tree.children)

\* the entries of the local tree that a rule of the rule file of the root
\* names, and the entries below them
Hidden ==
    LET rule_file == <<"a", GITIGNORE>>
        rules == IF rule_file \in DOMAIN fs
                 THEN parse_gitignore(fs, PathOf(rule_file)) ELSE <<>>
    IN  { c \in DOMAIN fs :
            \E k \in 2..Len(c), i \in 1..Len(rules) :
                Components(rules[i]) = SubSeq(c, 1, k) }

\* C12 (an excluded path has no effect): during a run, an entry that the
\* rules of the rule file of the root name, and every entry below it, is no
\* node of the tree, sync_child is not called on it, no create_folder or
\* upload_file call carries its name, no update_file call goes to the remote
\* id of a record of its path, and the table holds no record of its path that
\* it did not hold when the run started.
C12_excluded_untouched ==
    pc # "idle" =>
        \A c \in Hidden :
            /\ \A p \in NodePaths(traverse_inputs(fs, reversed, input_files).children) :
                  Components(p) # c
            /\ \A p \in visited : Components(p) # c
            /\ CallsWhere(calls, LAMBDA k :
                   k.op \in {"create_folder", "upload_file"} /\ k.name = c[Len(c)]) = {}
            /\ \A i \in 1..Len(files0) :
                  files0[i].path = KeyOf(PathOf(c)) =>
                      CallsWhere(calls, LAMBDA k :
                          k.op = "update_file" /\ k.target = files0[i].id) = {}
            /\ \A j \in 1..Len(files) :
                  files[j].path = KeyOf(PathOf(c)) =>
                      \E i \in 1..Len(files0) : files0[i] = [files[j] EXCEPT !.sync_include =
                                                                files0[i].sync_include]

\* C12: the directory /a/d with the file /a/d/y is named by the rule file of
\* the root, and a run processed every node and uploaded /a/x
C12_witness ==
    /\ pc = "sweep"
    /\ {<<"a", "d">>, <<"a", "d", "y">>} \subseteq Hidden
    /\ CallsWhere(calls, LAMBDA k : k.op = "upload_file" /\ k.name = "x") # {}

\* the scenario: /a holds the new file x, the rule file with the line "d" and
\* the directory d with the file y; the State Store is empty
Scenario ==
    /\ DOMAIN fs = {<<"a">>, <<"a", "x">>, <<"a", GITIGNORE>>, <<"a", "d">>,
                    <<"a", "d", "y">>}
    /\ fs[<<"a", GITIGNORE>>].lines = << <<"d">> >>
    /\ files0 = <<>>

\* the names of the files uploaded in the current run, one per call
Uploads == { << k, calls[k].name >> : k \in CallsWhere(calls, LAMBDA c : c.op = "upload_file") }

\* C13 as stated: in the scenario, when sync_child has returned Ok for every
\* node, the only upload_file call of the run is the one for /a/x.
C13_only_x_uploaded ==
    (pc = "sweep" /\ Scenario) =>
        /\ Cardinality(Uploads) = 1
        /\ \A u \in Uploads : u[2] = "x"

\* C13 (amended): in the scenario, when sync_child has returned Ok for every
\* node, the run has issued exactly two upload_file calls, one for /a/x and
\* one for the rule file /a/.gitignore, which is a File node of the tree like
\* any other file; none for /a/d or /a/d/y.
C13_x_and_rule_file_uploaded ==
    (pc = "sweep" /\ Scenario) =>
        /\ Cardinality(Uploads) = 2
        /\ { u[2] : u \in Uploads } = {"x", GITIGNORE}

\* C13: the scenario was run to the sweep
C13_witness ==
    /\ pc = "sweep" /\ Scenario
    /\ { u[2] : u \in Uploads } = {"x", GITIGNORE}

\* C14 (path uniqueness): the table holds at most one record per path.
C14_path_unique ==
    \A i, j \in 1..Len(files) : files[i].path = files[j].path => i = j

\* C15 (remote id never empty): every record of the table has a non-empty
\* remote id.
C15_remote_id_nonempty == \A i \in 1..Len(files) : files[i].id # NoId

\* C15: sync_child created a folder or uploaded a file and recorded it
C15_witness ==
    /\ last.inserted
    /\ Len(files) > 0
    /\ \E k \in 1..Len(last.log) :
          last.log[k].res = "ok" /\ files[Len(files)].id = last.log[k].id

\* C16 (path keys round-trip): right after sync_child recorded a path with
\* insert_file, the key insert_file wrote is the key get_file_record and
\* update_file compute for that path, and get_file_record on that path
\* returns the record with the id that was inserted.
C16_key_round_trip ==
    (pc = "sync" /\ last.inserted /\ last.res = "Ok") =>
        /\ KeyOf(last.path) = base64_encode(last.path)
        /\ LET record == get_file_record(Machine("none", NoId, 0), last.path,
                                         "lookup_db", "lookup_step")
           IN  record.res = "some" /\ record.id = files[Len(files)].id

\* the part of the file system at and below a root
Below(fsys, root) ==
    LET cs == Components(root)
    IN  [c \in { c \in DOMAIN fsys : Len(c) >= Len(cs) /\ SubSeq(c, 1, Len(cs)) = cs }
            |-> fsys[c]]

\* C17 (exclusions do not leak across roots): the tree sync builds for each
\* input root is the tree traverse builds, from an empty exclusion list, over
\* the part of the file system at and below that root alone; the rule files
\* met in the traversal of another root change nothing in it.
C17_roots_independent ==
    tree.res = "Ok" =>
        \A i \in 1..Len(input_files) :
            << tree.children[i] >>
                = traverse(Below(fs, input_files[i]), reversed, input_files[i], <<>>).children

\* C17: the roots /a and /a/d were traversed in that order, the rule file of
\* /a names /a/d/y, which is left out of the tree of /a and is a node of the
\* tree of /a/d
C17_witness ==
    /\ tree.res = "Ok"
    /\ input_files = << <<SEP, "a">>, <<SEP, "a", SEP, "d">> >>
    /\ <<"a", GITIGNORE>> \in DOMAIN fs
    /\ fs[<<"a", GITIGNORE>>].lines = << <<"d", SEP, "y">> >>
    /\ <<SEP, "a", SEP, "d">> \in NodePaths(<< tree.children[1] >>)
    /\ <<SEP, "a", SEP, "d", SEP, "y">> \notin NodePaths(<< tree.children[1] >>)
    /\ <<SEP, "a", SEP, "d", SEP, "y">> \in NodePaths(<< tree.children[2] >>)

\* C19 (read failures are returned): the first loop of sync ends with Ok or
\* with an error value, never without returning; it ends with Ok only when
\* every directory and rule file among the nodes could be read.
C19_read_failure_returned ==
    /\ tree.res # "Panic"
    /\ tree.res = "Ok" =>
          \A p \in NodePaths(tree.children) :
              (is_dir(fs, p) \/ file_name(p) = GITIGNORE) => readable(fs, p)

\* C18 (the token is usable): when get_access_token returns Ok, the token is
\* not empty, and it is either the stored token taken no later than 60
\* seconds before its stored expiry or a token refreshed and saved in this
\* call.
C18_token_usable ==
    token.res = "Ok" =>
        /\ token.access_token # NoToken
        /\ token.fresh \/ token.at <= token.expiry - Margin

\* C20 (configuration merge): after a `gsync config` command every option of
\* the stored configuration is the value given on the command line when one
\* was given, and the value stored before otherwise.
C20_config_merge ==
    cmd.ran =>
        \A o \in Options :
            Stored(config)[o] = IF cmd.new[o] # None THEN cmd.new[o] ELSE cmd.prev[o]


\* C21 (normalize_path): for every input text p, normalize_path returns p
\* itself when p starts with "/", the working directory immediately followed
\* by p when p starts with ".", and the working directory, a "/" and p in
\* every other case.
C21_normalize_path ==
    normal # NoPaths =>
        \A k \in 1..Len(input_files) :
            LET p == input_files[k]
                slash == p # <<>> /\ p[1] = SEP
                period == p # <<>> /\ p[1] \in {DOT, DOTDOT, GITIGNORE}
            IN  /\ slash => normal[k] = p
                /\ period => normal[k] = PWD \o p
                /\ (~slash /\ ~period) => normal[k] = PWD \o << SEP >> \o p

\* C21: "./a" was normalised in the working directory "/w" to "/w./a", "a" to
\* "/w/a", and "/a" was left as it is
C21_witness ==
    /\ PWD = Home
    /\ input_files = << << "a" >>, << DOT, SEP, "a" >>, << SEP, "a" >> >>
    /\ normal = << << SEP, "w", SEP, "a" >>, << SEP, "w", DOT, SEP, "a" >>,
                   << SEP, "a" >> >>

\* the ids of the folders that create_folder calls of the last sync_child call
\* created with the name of its node
Created ==
    { last.log[k].id : k \in CallsWhere(last.log, LAMBDA c :
          c.op = "create_folder" /\ c.res = "ok" /\ c.name = file_name(last.path)) }

\* C22 (a directory without a record is recorded): when sync_child has
\* returned Ok for a Directory that had no record, the table holds a record
\* of the directory's path whose remote id is the id of the folder taken from
\* the listing when one was listed, and the id of the folder just created
\* otherwise.
C22_directory_recorded ==
    (/\ pc = "sync" /\ last.kind = "dir" /\ last.rec = "none"
     /\ last.res = "Ok" /\ last.fault = "none") =>
        \E i \in 1..Len(files) :
            /\ files[i].path = KeyOf(last.path)
            /\ IF last.taken # NoId THEN files[i].id = last.taken
               ELSE files[i].id \in Created

\* C23 (the parent is recorded): whenever sync_child has processed a node
\* below a root, Directory or File, that had no record, the table holds a
\* record of the node's parent directory and the lookup of the parent has
\* not yielded None.
C23_parent_recorded ==
    (/\ pc = "sync" \/ last.res # "Ok"
     /\ last.kind # "none" /\ ~last.at_root /\ last.rec = "none"
     /\ last.fault = "none") =>
        /\ last.res # "Panic"
        /\ \E i \in 1..Len(files) : files[i].path = base64_encode(parent(last.path))

\* the remote id the node of the last sync_child call is created under when
\* it has no record: env.root_folder at a root, the id of the record of its
\* parent directory elsewhere (NoId when there is none)
ParentId ==
    IF last.at_root THEN root_folder
    ELSE LET rows == SelectSeq(files, LAMBDA r : r.path = base64_encode(parent(last.path)))
         IN  IF rows = <<>> THEN NoId ELSE rows[1].id

\* C24 (adoption is scoped): the remote folder sync_child takes for a
\* Directory without a record has the name of the directory and is a child
\* of the remote id the directory would be created under.
C24_adopted_under_parent ==
    (/\ pc = "sync" \/ last.res # "Ok"
     /\ last.kind = "dir" /\ last.taken # NoId) =>
        \A e \in remote :
            e.id = last.taken =>
                e.folder /\ e.name = file_name(last.path) /\ e.parent = ParentId

\* C25 (the remote tree mirrors the local tree): every create_folder and
\* upload_file call that sync_child issues for its node, the calls of the
\* repair branch included, is issued with env.root_folder when the node is a
\* root, and with the remote id of the record of the node's parent directory
\* when it is not.
C25_created_under_parent ==
    (/\ pc = "sync" \/ last.res # "Ok"
     /\ last.kind # "none") =>
        \A k \in CallsWhere(last.log, LAMBDA c :
                    c.op \in {"create_folder", "upload_file"}
                    /\ c.name = file_name(last.path)) :
            last.log[k].target = ParentId /\ ParentId # NoId

\* C26 (ancestor repair): when the create_folder call for a Directory below
\* a root has failed with 404 because the folder of its parent is gone, and
\* nothing else fails, then after the call the record of the parent names a
\* folder of the remote store, the creation was retried exactly once, under
\* that folder, and the retry and the call succeeded.
C26_ancestor_repair ==
    (/\ pc = "sync" \/ last.res # "Ok"
     /\ last.kind = "dir" /\ ~last.at_root /\ last.fault = "none"
     /\ CallsWhere(last.log, LAMBDA c : c.point = "create" /\ c.res = "404") # {}) =>
        /\ ParentId # NoId /\ Exists(remote, ParentId)
        /\ Cardinality(CallsWhere(last.log, LAMBDA c : c.point = "retry")) = 1
        /\ \A k \in CallsWhere(last.log, LAMBDA c : c.point = "retry") :
              last.log[k].target = ParentId /\ last.log[k].res = "ok"
        /\ last.res = "Ok"

\* C27 (retried deletion converges): a run that follows, over the same local
\* tree and with no failure of the database or of the remote store, a run
\* that deleted stale remote entities and then failed before their records
\* were removed, ends with Ok and leaves no record with sync_include = 0.
C27_retried_deletion ==
    (pc = "idle" /\ prior.retry /\ faults = prior.faults /\ oobs = 0) =>
        /\ result = "Ok"
        /\ \A i \in 1..Len(files) : files[i].sync_include = 1

\* the keys of the records of the directory /a/d and of its file /a/d/y
SubtreeKeys == { KeyOf(<< SEP, "a", SEP, "d" >>), KeyOf(<< SEP, "a", SEP, "d", SEP, "y" >>) }

\* C28 (order-independent subtree deletion): when the records of a directory
\* and of the file in it are both stale in a sweep because the directory is
\* gone from the local tree, and nothing fails in the database or the remote
\* store, the run ends with Ok and the table holds neither record, in
\* whatever order the SELECT returned them.
C28_subtree_deleted ==
    (/\ pc = "idle" /\ result # "none"
     /\ faults = prior.faults /\ oobs = 0
     /\ << "a", "d" >> \notin DOMAIN prior.fs
     /\ SubtreeKeys \subseteq { stale0[i].path : i \in 1..Len(stale0) }) =>
        /\ result = "Ok"
        /\ \A i \in 1..Len(files) : files[i].path \notin SubtreeKeys

\* what the first loop of the current run returned
Nodes == traverse_inputs(prior.fs, reversed, input_parts(PWD, input_files))

\* the keys under which a node is inserted and looked up
NodeKeys(S) == { KeyOf(p) : p \in S } \cup { base64_encode(p) : p \in S }

\* the states of a run in their order
Phases ==
    /\ (pc = "idle" /\ runs > 0 /\ Nodes.res # "Ok") =>
          /\ result \in {"Err", "Panic"}
          /\ files = files0
          /\ \A k \in 1..Len(calls) : calls[k].point = "root_create"
    /\ (pc \in {"sync", "sweep"} /\ removed = <<>>) =>
          /\ Nodes.res = "Ok"
          /\ visited \subseteq NodePaths(Nodes.children)
          /\ \A i \in 1..Len(files) :
                files[i].sync_include = 1 => files[i].path \in NodeKeys(visited)
    /\ CallsWhere(calls, LAMBDA c : c.op = "delete_file") # {} =>
          visited = NodePaths(Nodes.children)
    /\ pc = "sweep" => (work = <<>> /\ visited = NodePaths(Nodes.children))

\* a step of a run after its start clears no include flag
NoSecondReset ==
    (pc \in {"sync", "sweep"} /\ Len(files') >= Len(files)) =>
        \A i \in 1..Len(files) : files[i].sync_include = 1 => files'[i].sync_include = 1

\* C29 (phase ordering): in a run every input root is traversed before
\* anything else is done; when the traversal of a root fails the table is as
\* it was when the run started and sync has issued no remote call.  The
\* include flags are cleared before the first node is reconciled and not
\* again: only records that a reconciled node found or inserted are
\* included, and no later step of the run clears a flag.  No delete_file call
\* is issued before every node of every root has been reconciled.
C29_phase_ordering == []Phases /\ [][NoSecondReset]_vars

\* C29: a run over two roots recorded their nodes, a directory of the second
\* root then became unreadable, and the next run failed in the traversal and
\* left every record included
C29_witness ==
    /\ pc = "idle" /\ runs = 2 /\ result = "Err"
    /\ Len(input_files) = 2
    /\ Nodes.res = "Err"
    /\ Len(files) > 2
    /\ files = files0
    /\ \A i \in 1..Len(files) : files[i].sync_include = 1

\* the remote id stored for a key: what the SELECT of get_file_record returns
stored_id(table, key) ==
    LET rows == SelectSeq(table, LAMBDA r : r.path = key)
    IN  IF rows = <<>> THEN NoId ELSE rows[1].id

\* a step in which sync_child found the record of its node and touched it
\* changes the time and the include flag of that record, and nothing else
TouchFrame ==
    (pc = "sync" /\ pc' = "sync" /\ last'.rec = "some" /\ files' # files) =>
        /\ Len(files') = Len(files)
        /\ \A i \in 1..Len(files) :
              /\ files'[i].id = files[i].id
              /\ files'[i].path = files[i].path
              /\ files[i].path # base64_encode(last'.path) => files'[i] = files[i]

\* no step changes the remote id stored for a key that keeps a record
StableId ==
    \A i \in 1..Len(files) :
        stored_id(files', files[i].path) \in {NoId, stored_id(files, files[i].path)}

rows_of(table, p) == SelectSeq(table, LAMBDA r : r.path = KeyOf(p))

\* C31 (known nodes are refreshed): after a run that returned Ok every node of
\* the traversed tree that had a record when the run started has a record
\* that is included and stores the node's local modification time, also when
\* that time is lower than the one stored before.
C31_known_refreshed ==
    (pc = "idle" /\ result = "Ok" /\ runs > 0) =>
        \A p \in NodePaths(Nodes.children) :
            rows_of(files0, p) # <<>> =>
                /\ rows_of(files, p) # <<>>
                /\ \A i \in 1..Len(rows_of(files, p)) :
                      /\ rows_of(files, p)[i].sync_include = 1
                      /\ rows_of(files, p)[i].modification_time = get_modification_time(p)

\* the lines of a rule file that are neither empty nor a comment
rule_lines(lines) == SelectSeq(lines, LAMBDA l : l # <<>> /\ l[1] # "#")

\* a line without its first "/", when it has one
unanchored(line) == IF line # <<>> /\ line[1] = SEP THEN Tail(line) ELSE line

\* C32 (rule parsing): parse_gitignore of a rule file in the directory D
\* yields one rule for every line that is not empty and does not start with
\* "#", in the order of the file; each rule is the path D joined with the
\* line less at most one leading "/", so that the lines "/y" and "y" yield
\* the same rule D/y.
C32_rule_parsing ==
    parsed # NoRules =>
        LET D == parent(gitignore_path(fs))
            kept == rule_lines(fs[Components(gitignore_path(fs))].lines)
        IN  /\ Len(parsed) = Len(kept)
            /\ \A k \in 1..Len(kept) :
                  path_eq(parsed[k], D \o << SEP >> \o unanchored(kept[k]))
            /\ \A j, k \in 1..Len(kept) :
                  kept[j] = << SEP >> \o kept[k] => path_eq(parsed[j], parsed[k])

\* C32: a rule file with a comment, an empty line, the line "/y" and the line
\* "y" was parsed into two rules
C32_witness ==
    /\ parsed # NoRules
    /\ Len(parsed) = 2
    /\ \E i, j, k \in 1..Len(fs[Components(gitignore_path(fs))].lines) :
          LET lines == fs[Components(gitignore_path(fs))].lines
          IN  /\ j < k
              /\ lines[j] = << SEP, "y" >> /\ lines[k] = << "y" >>
              /\ lines[i] # <<>> /\ lines[i][1] = "#"

\* the paths of the nodes of a tree, one entry for every node
RECURSIVE NodeSeq(_)
NodeSeq(children) ==
    IF children = <<>> THEN <<>>
    ELSE << Head(children).path >> \o NodeSeq(Head(children).children)
         \o NodeSeq(Tail(children))

\* how often the path with components c is a node of the tree
Occurrences(children, c) ==
    Len(SelectSeq(NodeSeq(children), LAMBDA p : Components(p) = c))

\* the rules of the rule file of directory A, none when it has no rule file
RulesIn(A) ==
    IF Append(A, GITIGNORE) \in DOMAIN fs
    THEN parse_gitignore(fs, PathOf(Append(A, GITIGNORE))) ELSE <<>>

\* a rule of the rule file of a directory at or below R, of length from..to - 1,
\* on the way to c, equals Q
RuleNames(R, c, Q, to) ==
    \E n \in Len(R)..(to - 1) : \E i \in 1..Len(RulesIn(SubSeq(c, 1, n))) :
        Components(RulesIn(SubSeq(c, 1, n))[i]) = Q

\* the entries of the file system below the root R
EntriesBelow(R) == { c \in DOMAIN fs : Len(c) > Len(R) /\ SubSeq(c, 1, Len(R)) = R }

\* C33 as stated: a path P below a root R is a node of the tree of R, once,
\* exactly when no path on the chain from the children of R down to P equals
\* a rule of a rule file in one of the ancestor directories of P within R.
C33_exact_path_membership ==
    tree.res = "Ok" =>
        \A k \in 1..Len(input_files) :
            LET R == Components(input_files[k])
            IN  \A c \in EntriesBelow(R) :
                    Occurrences(<< tree.children[k] >>, c) =
                        IF \E m \in (Len(R) + 1)..Len(c) :
                               RuleNames(R, c, SubSeq(c, 1, m), Len(c))
                        THEN 0 ELSE 1

\* C33 (tree membership is exact-path matching): a path P below a root R is a
\* node of the tree of R, once, exactly when no path Q on the chain from the
\* children of R down to P equals a rule of a rule file in one of the
\* ancestor directories of Q within R.  A rule file is read when its
\* directory is entered: a rule that names the directory of its own rule file
\* excludes nothing.  A rule excludes the path it equals and nothing by
\* prefix, glob or partial name.
C33_membership_by_ancestor_rules ==
    tree.res = "Ok" =>
        \A k \in 1..Len(input_files) :
            LET R == Components(input_files[k])
            IN  \A c \in EntriesBelow(R) :
                    Occurrences(<< tree.children[k] >>, c) =
                        IF \E m \in (Len(R) + 1)..Len(c) :
                               RuleNames(R, c, SubSeq(c, 1, m), m)
                        THEN 0 ELSE 1

\* C33: in the tree of the root /a the rule "x" of /a/.gitignore left out
\* /a/x, and the rule "." of /a/d/.gitignore, which names /a/d, left out
\* neither /a/d nor the entries of /a/d
C33_witness ==
    /\ tree.res = "Ok"
    /\ input_files = << <<SEP, "a">> >>
    /\ {<<"a", GITIGNORE>>, <<"a", "d", GITIGNORE>>, <<"a", "x">>, <<"a", "d", "y">>}
          \subseteq DOMAIN fs
    /\ fs[<<"a", GITIGNORE>>].lines = << <<"x">> >>
    /\ fs[<<"a", "d", GITIGNORE>>].lines = << <<DOT>> >>
    /\ Occurrences(tree.children, <<"a", "x">>) = 0
    /\ Occurrences(tree.children, <<"a", "d">>) = 1
    /\ Occurrences(tree.children, <<"a", "d", "y">>) = 1
    /\ Occurrences(tree.children, <<"a", "d", GITIGNORE>>) = 1

\* the tree the first loop of sync builds when every directory is listed in
\* the other order
Relisted == traverse_inputs(fs, ~reversed, input_parts(PWD, input_files))

\* C34 (the listing order does not matter): the first loop of sync returns Ok
\* in one listing order exactly when it does in the other, and then the tree
\* of every root has the same set of nodes; the rules a sibling listed earlier
\* added to the shared exclusion list leave out no sibling listed later and
\* none of its descendants.
C34_listing_order ==
    tree.res # "none" =>
        /\ (tree.res = "Ok") = (Relisted.res = "Ok")
        /\ tree.res = "Ok" =>
              \A k \in 1..Len(input_files) :
                  NodePaths(<< tree.children[k] >>) = NodePaths(<< Relisted.children[k] >>)

\* C34: /a/d with the rule "../e" in its rule file was listed before its
\* sibling /a/e, and /a/e and /a/e/z are nodes of the tree
C34_witness ==
    /\ tree.res = "Ok"
    /\ input_files = << <<SEP, "a">> >>
    /\ <<"a", "d", GITIGNORE>> \in DOMAIN fs
    /\ fs[<<"a", "d", GITIGNORE>>].lines = << <<DOTDOT, SEP, "e">> >>
    /\ \E i, j \in 1..Len(NodeSeq(tree.children)) :
          /\ i < j
          /\ Components(NodeSeq(tree.children)[i]) = <<"a", "d">>
          /\ Components(NodeSeq(tree.children)[j]) = <<"a", "e">>
    /\ Occurrences(tree.children, <<"a", "e", "z">>) = 1

\* the stored configuration has the three options a run needs and the user
\* table has a row
Ready ==
    /\ config # <<>>
    /\ \A o \in {"client_id", "client_secret", "input_files"} : config[1][o] # None
    /\ user # <<>>

\* the folders named GSync of the remote store
GSyncFolders(rem) == { e \in rem : e.folder /\ e.name = GSYNC }

\* the start of `gsync sync`
CommandStart ==
    (pc = "idle" /\ runs' = runs + 1) =>
        /\ ~Ready =>
              /\ pc' = "idle" /\ result' \in {"Exit", "Err"}
              /\ ~prior'.listed /\ calls' = <<>>
              /\ remote' = remote /\ gen' = gen
              /\ files' = files
        /\ (\E k \in 1..Len(calls') : calls'[k].op = "create_folder") =>
              /\ prior'.listed
              /\ GSyncFolders(remote) = {}
        /\ pc' = "sync" =>
              /\ prior'.listed
              /\ \E e \in GSyncFolders(remote') : e.id = root_folder'

\* C35 (the sync subcommand): without a complete stored configuration and a
\* row in the user table `gsync sync` ends without a remote call and without
\* a change of the table of records; the folder GSync is listed, and created
\* only when the listing is empty, before the first node is reconciled, and
\* every node is reconciled with the id of that folder as env.root_folder.
C35_sync_command ==
    /\ [][CommandStart]_vars
    /\ [](visited # {} => (prior.listed /\ root_folder # NoId))
    /\ [][pc # "idle" => root_folder' = root_folder]_vars

\* C35: a run recorded the tree, `gsync config` then lost the stored
\* configuration, and the next `gsync sync` ended at once and left the
\* records and the remote store alone
C35_witness ==
    /\ runs = 2 /\ pc = "idle" /\ result = "Exit"
    /\ cmd.ran /\ config = <<>> /\ user # <<>>
    /\ files # <<>> /\ files = files0
    /\ calls = <<>> /\ ~prior.listed
    /\ GSyncFolders(remote) # {}

\* what the last `gsync config` command had to store: the option given on the
\* command line, else the one stored before
Wanted == [o \in Options |-> IF cmd.new[o] # None THEN cmd.new[o] ELSE cmd.prev[o]]

\* C36 (`gsync config` writes complete configurations only): when the options
\* of the command line merged with the stored ones lack client_id,
\* client_secret or input_files, the command exits with 1 and the stored
\* configuration is as it was; a command that exits with 0 stored the merged
\* configuration, which is complete (drive_id may be absent); the stored
\* configuration changes only when the merged one is complete; the config
\* table never holds more than one row.
C36_config_complete ==
    /\ Len(config) <= 1
    /\ cmd.ran =>
          LET complete == \A o \in {"client_id", "client_secret", "input_files"} :
                              Wanted[o] # None
          IN  /\ ~complete => (cmd.exit = 1 /\ Stored(config) = cmd.prev)
              /\ cmd.exit = 0 => (complete /\ config = << Wanted >>)
              /\ Stored(config) # cmd.prev => complete

\* C36: with nothing stored, a command that gave client_id and client_secret
\* but no input_files exited with 1 and stored nothing
C36_witness ==
    /\ cmd.ran
    /\ cmd.prev = empty
    /\ cmd.new["client_id"] # None /\ cmd.new["client_secret"] # None
    /\ cmd.new["input_files"] = None
    /\ cmd.exit = 1 /\ config = <<>>

\* a step in which get_access_token was called
TokenStep ==
    token' # token =>
        /\ token'.res = "Ok" =>
              (token'.fresh <=> (user # <<>> /\ now > user[1].expiry - Margin))
        /\ (token'.res = "Ok" /\ token'.fresh) =>
              /\ Len(user') = 1
              /\ user'[1].refresh_token = user[1].refresh_token
              /\ user'[1].access_token = token'.access_token
              /\ user'[1].access_token # user[1].access_token
              /\ user'[1].expiry \in { now + l : l \in Lifetimes }
        /\ (token'.res = "Ok" /\ ~token'.fresh) => user' = user

\* a step in which `gsync login` saved, or failed to save, its tokens
LoginStep ==
    (token' = token /\ user' # user) =>
        \/ user' = <<>>
        \/ /\ Len(user') = 1
           /\ user'[1].refresh_token \in RefreshTokens
           /\ user'[1].access_token = user'[1].expiry
           /\ user'[1].expiry \in { now + l : l \in Lifetimes }

\* C37 (token session state): the user table never holds more than one row;
\* get_access_token refreshes the token exactly when the time is later than
\* the stored expiry less 60 seconds; a refresh replaces the access token and
\* the expiry of the row and keeps its refresh token; a login replaces the
\* row by a row with the token, the refresh token and the expiry of that
\* login.
C37_token_session ==
    /\ [](Len(user) <= 1)
    /\ [][TokenStep /\ LoginStep]_vars

\* a handled request without an error, with a code and with the state of
\* this login
Accepted(h) ==
    /\ h.query.error = None
    /\ h.query.code # None
    /\ h.query.state = login.state

\* what holds in every state of a login
LoginStates ==
    /\ \A k \in 1..Len(login.handled) :
          login.handled[k].answer = "Ok" => Accepted(login.handled[k])
    /\ Len(login.tx) + (IF login.code = None THEN 0 ELSE 1)
          = Cardinality({ k \in 1..Len(login.handled) : login.handled[k].answer = "Ok" })
    /\ login.code # None =>
          \E k \in 1..Len(login.handled) :
              Accepted(login.handled[k]) /\ login.handled[k].query.code = login.code
    /\ login.pc \in {"stop", "exchange", "done"} => login.code # None
    /\ login.shown => login.server \in {"running", "stopped"}
    /\ login.server = "stopped" => (login.shown /\ login.code # None)

\* what holds of every step of a login
LoginSteps ==
    /\ user' # user => (login.pc = "exchange" /\ login.code # None)
    /\ (login'.shown /\ ~login.shown) => login.server = "running"
    /\ (login'.server = "stopped" /\ login.server # "stopped") => login.code # None
    /\ login'.code # login.code => (login.tx # <<>> /\ login'.code = Head(login.tx))

\* C38 (login callback protocol): a code is sent on the channel only by the
\* handler of a request that carries no error, carries a code and carries the
\* state generated for this login; the login flow has a code, and the user
\* table is written, only after such a request; the callback server runs
\* before the authorization URL is shown and is stopped only after the code
\* was received.
C38_login_callback == []LoginStates /\ [][LoginSteps]_vars

\* C38: the server handled a request with an error and then a request with
\* the code and the state of the login, and the tokens were saved
C38_witness ==
    /\ login.pc = "done" /\ login.server = "stopped"
    /\ Len(login.handled) = 2
    /\ login.handled[1].query.error # None /\ login.handled[1].answer = "BadRequest"
    /\ login.handled[2].answer = "Ok" /\ login.handled[2].query.code = login.code
    /\ user # <<>>

\* the calls that took an id from get_id
Creates(log) ==
    SelectSeq(log, LAMBDA c : c.op \in {"create_folder", "upload_file"})

\* the ids of a sequence of calls, of a pool
IdsOf(log) == { log[k].id : k \in 1..Len(log) }

\* in every state: the ids get_id returned in this run are distinct, are not
\* in the pool, and were generated after the run started; the pool holds
\* distinct ids
IdStates ==
    /\ \A j, k \in 1..Len(Creates(calls)) :
          Creates(calls)[j].id = Creates(calls)[k].id => j = k
    /\ \A k \in 1..Len(Creates(calls)) :
          /\ Creates(calls)[k].id > prior.gen
          /\ Creates(calls)[k].id <= gen
    /\ \A j, k \in 1..Len(IDS) : IDS[j] = IDS[k] => j = k
    /\ \A k \in 1..Len(IDS) : IDS[k] \notin IdsOf(Creates(calls))

\* in every step of a run: an id that get_id returned came from the pool or
\* from a new batch and is not in the pool afterwards; a batch is requested
\* only after every id of the pool was returned (a new process starts with an
\* empty pool)
IdSteps ==
    LET pool == IF runs' # runs THEN {} ELSE { IDS[k] : k \in 1..Len(IDS) }
        given == IdsOf(Creates(IF runs' # runs THEN calls'
                               ELSE SubSeq(calls', Len(calls) + 1, Len(calls'))))
    IN  (oobs' = oobs) =>
            /\ given \subseteq pool \cup ((gen + 1)..gen')
            /\ \A k \in 1..Len(IDS') : IDS'[k] \notin given
            /\ gen' # gen => (pool \subseteq given /\ given # {})
            /\ gen' = gen => (given = pool \ { IDS'[k] : k \in 1..Len(IDS') })

\* C39 (id pool): get_id asks the remote service for a batch of ids only when
\* the pool is empty, removes the id it returns from the pool, and over every
\* sequence of create_folder and upload_file calls, failed ones included,
\* returns no id twice.
C39_id_pool == []IdStates /\ [][IdSteps]_vars

\* C39: in one run a create_folder call failed with 404 and was repeated, a
\* second batch of ids was requested, and the calls got different ids
C39_witness ==
    /\ Len(Creates(calls)) > IdBatch
    /\ \E k \in 1..Len(calls) : calls[k].res = "404"
    /\ gen >= prior.gen + 2 * IdBatch

====
